---- MODULE Spec2Model ----
(***************************************************************************)
(* A model of the counterfactual forecasting engine of counterfactual_ts:  *)
(* Event / EventManager (events.py), the time utilities (utils.py), the    *)
(* AR(p) fitter (models.py), the cyclical pattern extractor (patterns.py)  *)
(* and TimeSeriesCounterfactualGenerator (counterfactual.py).              *)
(*                                                                         *)
(* Numbers.  A float is modelled as an exact rational <<n, d>> in lowest   *)
(* terms with d > 0, or as NaN == <<0, 0>>.  NaN propagates through every  *)
(* arithmetic operation and makes every comparison false, as IEEE-754      *)
(* does.  A missing cell of a pandas table is NaN.                         *)
(*                                                                         *)
(* Time.  A naive timestamp is an integer number of hours since Monday     *)
(* 2024-01-01 00:00; the model's timestamps all lie in January 2024.       *)
(* A timestamp as a caller passes it is a record [wall, tz]: the wall      *)
(* clock reading and the UTC offset in hours (NoTz when it is naive).      *)
(***************************************************************************)
EXTENDS Integers, Sequences, FiniteSets, TLC

VARIABLES
    hashSalt,   \* the per-process salt of Python's str hash (PYTHONHASHSEED)
    df,         \* the caller's series (a pandas DataFrame)
    cfg,        \* the generator's configuration (TimeSeriesCounterfactualGenerator.__init__)
    last,       \* the most recent generate / generate_multiple call: arguments and outcome
    prev,       \* the call before it
    budget,     \* the number of calls the caller still makes
    agenda,     \* the events the caller asks forecasts for
    heap,       \* the Event objects alive, by object id
    managers,   \* the EventManager objects alive: each a sequence of object ids
    evOut,      \* the outcome of the most recent Event / EventManager operation
    model       \* the ARModel object the caller holds

vars == <<hashSalt, df, cfg, last, prev, budget, agenda, heap, managers, evOut, model>>

-----------------------------------------------------------------------------
(* Floats as rationals, with NaN.                                          *)

NaN == <<0, 0>>

IsNaN(x) == x[2] = 0

Abs(n) == IF n < 0 THEN -n ELSE n

RECURSIVE GCD(_, _)
GCD(a, b) == IF b = 0 THEN a ELSE GCD(b, a % b)

\* n/d in lowest terms, d # 0
Rat(n, d) ==
    LET g == GCD(Abs(n), Abs(d))
        s == IF d < 0 THEN -1 ELSE 1
    IN  <<s * (n \div g), s * (d \div g)>>

Num(n) == <<n, 1>>

Zero == Num(0)

Add(x, y) == IF IsNaN(x) \/ IsNaN(y) THEN NaN ELSE Rat(x[1] * y[2] + y[1] * x[2], x[2] * y[2])

Sub(x, y) == IF IsNaN(x) \/ IsNaN(y) THEN NaN ELSE Rat(x[1] * y[2] - y[1] * x[2], x[2] * y[2])

Mul(x, y) == IF IsNaN(x) \/ IsNaN(y) THEN NaN ELSE Rat(x[1] * y[1], x[2] * y[2])

\* 0/0 is NaN; the model never divides a non-zero number by zero
Div(x, y) == IF IsNaN(x) \/ IsNaN(y) \/ y[1] = 0 THEN NaN ELSE Rat(x[1] * y[2], x[2] * y[1])

\* x < y, x <= y, x > 0: false as soon as one side is NaN
Lt(x, y) == ~IsNaN(x) /\ ~IsNaN(y) /\ x[1] * y[2] < y[1] * x[2]

Le(x, y) == ~IsNaN(x) /\ ~IsNaN(y) /\ x[1] * y[2] <= y[1] * x[2]

IsFinite(x) == ~IsNaN(x)

\* np.maximum / np.minimum: NaN if either operand is NaN
np_maximum(x, y) == IF IsNaN(x) \/ IsNaN(y) THEN NaN ELSE IF Lt(x, y) THEN y ELSE x

np_minimum(x, y) == IF IsNaN(x) \/ IsNaN(y) THEN NaN ELSE IF Lt(y, x) THEN y ELSE x

RECURSIVE SumSeq(_)
SumSeq(s) == IF s = <<>> THEN Zero ELSE Add(Head(s), SumSeq(Tail(s)))

\* np.mean: NaN as soon as one element is NaN, NaN (0/0) on an empty array
np_mean(s) == Div(SumSeq(s), Num(Len(s)))

\* np.dot of two vectors of the same length
RECURSIVE np_dot(_, _)
np_dot(a, b) == IF a = <<>> THEN Zero ELSE Add(Mul(Head(a), Head(b)), np_dot(Tail(a), Tail(b)))

\* the population variance np.std squares to
np_var(s) ==
    LET m == np_mean(s)
    IN  np_mean([i \in 1..Len(s) |-> Mul(Sub(s[i], m), Sub(s[i], m))])

\* the smallest k >= 0 with k * k >= n
RECURSIVE CeilSqrt(_, _)
CeilSqrt(n, k) == IF k * k >= n THEN k ELSE CeilSqrt(n, k + 1)

\* the resolution at which the model rounds a square root (a float rounds too)
SqrtDen == 4

\* np.std: the square root of the variance, rounded up to a multiple of 1/SqrtDen,
\* so that a positive variance has a positive standard deviation
np_std(s) ==
    LET v == np_var(s)
    IN  IF IsNaN(v) THEN NaN
        ELSE Rat(CeilSqrt(((v[1] * SqrtDen * SqrtDen) + v[2] - 1) \div v[2], 0), SqrtDen)

\* pandas' mean of a column or a group: missing values are skipped, NaN when none is left
pd_mean(s) == np_mean(SelectSeq(s, IsFinite))

-----------------------------------------------------------------------------
(* Sequences of timestamps.                                                *)

SeqToSet(s) == {s[i] : i \in 1..Len(s)}

RECURSIVE SortedSeq(_)
SortedSeq(S) ==
    IF S = {} THEN <<>>
    ELSE LET m == CHOOSE x \in S : \A y \in S : x <= y
         IN  <<m>> \o SortedSeq(S \ {m})

Last(s) == s[Len(s)]

-----------------------------------------------------------------------------
(* utils.py: timestamps, frequencies, the forecast index.                  *)

HoursPerDay == 24

DaysPerWeek == 7

NoTz == "naive"

\* a pd.Timestamp: its wall clock reading and its zone; nat marks pd.NaT
Stamp(wall, tz) == [wall |-> wall, tz |-> tz, nat |-> FALSE]

Naive(t) == Stamp(t, NoTz)

\* pd.NaT, the missing timestamp: it has no zone
NaT == [wall |-> 0, tz |-> NoTz, nat |-> TRUE]

\* a >= b on timestamps: every ordering comparison with NaT is False
ts_ge(a, b) == ~a.nat /\ ~b.nat /\ a.wall >= b.wall

ts_lt(a, b) == ~a.nat /\ ~b.nat /\ a.wall < b.wall

\* tz_localize(None) drops the zone and keeps the wall clock reading
normalize_timezone(ts) == IF ts.tz # NoTz THEN Stamp(ts.wall, NoTz) ELSE ts

\* a validation that lets an empty window (start = end) through
validate_event_dates_strict(event_start, event_end) ==
    ts_lt(normalize_timezone(event_end), normalize_timezone(event_start))

\* validate_event_dates: TRUE when it raises
validate_event_dates(event_start, event_end) ==
    ts_ge(normalize_timezone(event_start), normalize_timezone(event_end))

\* calendar fields of a naive timestamp (Monday = 0)
ts_hour(t) == t % HoursPerDay

ts_day(t) == t \div HoursPerDay

ts_dayofweek(t) == ts_day(t) % DaysPerWeek

\* a frequency: n hours ("tick": 'h', '2h', 'D' = 24 hours, ...), or n weeks
\* anchored on weekday wd ("week": 'W-MON', '2W-SUN', ...)
Tick(n) == [kind |-> "tick", n |-> n, wd |-> 0]

Week(n, wd) == [kind |-> "week", n |-> n, wd |-> wd]

NoFreq == [kind |-> "none", n |-> 0, wd |-> 0]

FreqError == [kind |-> "error", n |-> 0, wd |-> 0]

Deltas(ts) == {ts[i + 1] - ts[i] : i \in 1..(Len(ts) - 1)}

SetMin(S) == CHOOSE x \in S : \A y \in S : x <= y

\* pd.infer_freq on a sorted, duplicate-free DatetimeIndex within one month:
\* fewer than 3 timestamps raise ValueError; the annual, quarterly, monthly and
\* week-of-month rules cannot match; a single gap of whole days is 'W-<day>'
\* when it is whole weeks and 'D' otherwise; a single gap of whole hours is 'h'.
\* (Series whose gaps pandas reads as business hours or business days, 'bh' and
\* 'B', are not among the inputs.)
pd_infer_freq(ts) ==
    IF Len(ts) < 3 THEN FreqError
    ELSE LET D == Deltas(ts)
             d == SetMin(D)
         IN  IF d % HoursPerDay = 0
             THEN IF Cardinality(D) = 1
                  THEN IF (d \div HoursPerDay) % DaysPerWeek = 0
                       THEN Week((d \div HoursPerDay) \div DaysPerWeek, ts_dayofweek(ts[1]))
                       ELSE Tick(d)
                  ELSE NoFreq
             ELSE IF Cardinality(D) = 1 THEN Tick(d) ELSE NoFreq

DefaultFreq == Tick(1)

\* infer_frequency(df) with time_col = None on a frame with a DatetimeIndex
infer_frequency(ts) ==
    LET inferred_freq == pd_infer_freq(ts)
    IN  IF inferred_freq.kind = "none" THEN DefaultFreq ELSE inferred_freq

\* offset.rollforward(start): the first on-offset timestamp at or after start
rollforward(start, freq) ==
    IF freq.kind = "week"
    THEN start + ((freq.wd - ts_dayofweek(start)) % DaysPerWeek) * HoursPerDay
    ELSE start

FreqStep(freq) ==
    IF freq.kind = "week" THEN freq.n * DaysPerWeek * HoursPerDay ELSE freq.n

\* pd.date_range(start=, periods=, freq=)
date_range_periods(start, periods, freq) ==
    [k \in 1..periods |-> rollforward(start, freq) + (k - 1) * FreqStep(freq)]

\* pd.date_range(start=, end=, freq=)
date_range(start, end, freq) ==
    LET first == rollforward(start, freq)
    IN  IF first > end THEN <<>>
        ELSE date_range_periods(start, (end - first) \div FreqStep(freq) + 1, freq)

\* create_forecast_index: [ok, index]; ok = FALSE when it raises ValueError
create_forecast_index(start, end, freq) ==
    LET s == normalize_timezone(start).wall
        e == normalize_timezone(end).wall
        first_index == date_range(s, e, freq)
        forecast_index ==
            IF Len(first_index) > 0 /\ first_index[1] # s
            THEN date_range_periods(s, Len(first_index), freq)
            ELSE first_index
    IN  [ok |-> Len(forecast_index) # 0, index |-> forecast_index]

\* twice the median of a non-empty list of gaps (so that it is an integer)
RECURSIVE SortedBag(_)
SortedBag(s) ==
    IF s = <<>> THEN <<>>
    ELSE LET i == CHOOSE i \in 1..Len(s) : \A j \in 1..Len(s) : s[i] <= s[j]
         IN  <<s[i]>> \o SortedBag([k \in 1..(Len(s) - 1) |-> IF k < i THEN s[k] ELSE s[k + 1]])

Median2(s) ==
    LET o == SortedBag(s)
        n == Len(o)
    IN  IF n % 2 = 1 THEN 2 * o[(n + 1) \div 2] ELSE o[n \div 2] + o[n \div 2 + 1]

\* a detection whose boundaries are exclusive
auto_detect_cycle_period_strict(ts) ==
    LET time_diffs == [i \in 1..(Len(ts) - 1) |-> ts[i + 1] - ts[i]]
    IN  IF Len(ts) < 2 THEN "hour"
        ELSE LET median2 == Median2(time_diffs)
             IN  IF median2 < 2 * 6 THEN "hour"
                 ELSE IF median2 < 2 * 3 * HoursPerDay THEN "day"
                 ELSE IF median2 < 2 * 2 * DaysPerWeek * HoursPerDay THEN "week"
                 ELSE "month"

\* auto_detect_cycle_period on the pre-event frame after reset_index()
auto_detect_cycle_period(ts) ==
    LET time_diffs == [i \in 1..(Len(ts) - 1) |-> ts[i + 1] - ts[i]]
    IN  IF Len(ts) < 2 THEN "hour"
        ELSE LET median2 == Median2(time_diffs)
             IN  IF median2 <= 2 * 6 THEN "hour"
                 ELSE IF median2 <= 2 * 3 * HoursPerDay THEN "day"
                 ELSE IF median2 <= 2 * 2 * DaysPerWeek * HoursPerDay THEN "week"
                 ELSE "month"

\* 'M', the month-end frequency: auto_detect_frequency names it, no call reaches it
MonthEnd == [kind |-> "month", n |-> 1, wd |-> 0]

\* the rule of auto_detect_frequency on the median gap (twice the median, to stay
\* in the integers): 'h', 'D', 'W' (weekly on Sundays) or 'M'
median_gap_freq(ts) ==
    IF Len(ts) < 2 THEN Tick(1)
    ELSE LET median2 == Median2([i \in 1..(Len(ts) - 1) |-> ts[i + 1] - ts[i]])
         IN  IF median2 <= 2 * 1 THEN Tick(1)
             ELSE IF median2 <= 2 * HoursPerDay THEN Tick(HoursPerDay)
             ELSE IF median2 <= 2 * DaysPerWeek * HoursPerDay THEN Week(1, 6)
             ELSE MonthEnd

\* auto_detect_frequency: what infer_frequency returns unless that is None
auto_detect_frequency(ts) ==
    LET freq == infer_frequency(ts)
    IN  IF freq.kind # "none" THEN freq ELSE median_gap_freq(ts)

\* the frequency generate settles on: infer_frequency, and auto_detect_frequency
\* when that returns None
generate_freq(ts) ==
    LET freq == infer_frequency(ts)
    IN  IF freq.kind = "none" THEN auto_detect_frequency(ts) ELSE freq

-----------------------------------------------------------------------------
(* models.py: ARModel.                                                     *)

Zeros(n) == [i \in 1..n |-> Zero]

HasNaN(s) == \E i \in 1..Len(s) : IsNaN(s[i])

\* s[a..b] (1-based, inclusive), empty when a > b
Slice(s, a, b) == [i \in 1..(IF b >= a THEN b - a + 1 ELSE 0) |-> s[a + i - 1]]

\* a design matrix whose lag columns run from the newest value to the oldest
build_design_matrix_newest_first(y, order) ==
    [r \in 1..(Len(y) - order) |-> <<Num(1)>> \o [k \in 1..order |-> y[r + order - k]]]

\* _build_design_matrix: n = len(y) - order rows, each <<1, y[i], ..., y[i+order-1]>>
build_design_matrix(y, order) ==
    [r \in 1..(Len(y) - order) |-> <<Num(1)>> \o Slice(y, r, r + order - 1)]

\* X @ coeffs
MatVec(X, coeffs) == [r \in 1..Len(X) |-> np_dot(X[r], coeffs)]

\* the least-squares solution of a design with an intercept and one lag column
\* of full column rank (normal equations)
LstsqOneLag(X, t) ==
    LET n   == Num(Len(X))
        x   == [r \in 1..Len(X) |-> X[r][2]]
        Sx  == SumSeq(x)
        St  == SumSeq(t)
        Sxx == np_dot(x, x)
        Sxt == np_dot(x, t)
        det == Sub(Mul(n, Sxx), Mul(Sx, Sx))
        phi == Div(Sub(Mul(n, Sxt), Mul(Sx, St)), det)
    IN  <<Div(Sub(St, Mul(phi, Sx)), n), phi>>

\* the minimum-norm solution of a design with fewer rows than columns and full
\* row rank: X^T (X X^T)^-1 t, for one or two rows
LstsqMinNorm(X, t) ==
    IF Len(X) = 1
    THEN LET w == Div(t[1], np_dot(X[1], X[1]))
         IN  [j \in 1..Len(X[1]) |-> Mul(w, X[1][j])]
    ELSE LET a   == np_dot(X[1], X[1])
             b   == np_dot(X[1], X[2])
             d   == np_dot(X[2], X[2])
             det == Sub(Mul(a, d), Mul(b, b))
             w1  == Div(Sub(Mul(d, t[1]), Mul(b, t[2])), det)
             w2  == Div(Sub(Mul(a, t[2]), Mul(b, t[1])), det)
         IN  [j \in 1..Len(X[1]) |-> Add(Mul(w1, X[1][j]), Mul(w2, X[2][j]))]

\* the designs np_linalg_lstsq is modelled for
LstsqModelled(X) == Len(X[1]) = 2 \/ Len(X) < Len(X[1])

\* np.linalg.lstsq(X, t, rcond=None)[0]: a NaN anywhere makes every coefficient NaN
np_linalg_lstsq(X, t) ==
    IF HasNaN(t) \/ (\E r \in 1..Len(X) : HasNaN(X[r])) THEN [j \in 1..Len(X[1]) |-> NaN]
    ELSE IF Len(X) < Len(X[1]) THEN LstsqMinNorm(X, t)
    ELSE LstsqOneLag(X, t)

\* a degeneracy test that no array passes
StdBelowEps_never(a) == LET sd == np_std(a) IN ~IsNaN(sd) /\ sd[1] < 0

\* np.std(a) < 1e-10
StdBelowEps(a) == LET sd == np_std(a) IN ~IsNaN(sd) /\ sd[1] = 0

\* ARModel.__init__: TRUE when it raises ValueError
ARModel_init_raises(order) == order < 1

\* a length check that also rejects exactly order + 1 values
fit_too_short_inclusive(y, order) == Len(y) <= order + 1

\* the length check of fit: TRUE when fit raises for too little history
fit_too_short(y, order) == Len(y) < order + 1

\* ARModel.fit(y) on a model of the given order.  svd_fails: whether LAPACK's SVD
\* fails to converge on a design matrix holding NaN (LinAlgError) instead of
\* returning NaN coefficients.  stored: whether the call reached the assignment of
\* self.coefficients, self.residuals and self.residual_std.
ARModel_fit(y, order, svd_fails) ==
    LET y_target == Slice(y, order + 1, Len(y))
        degenerate(c) == [raised |-> FALSE, phi |-> Zeros(order), c |-> c,
                          residual_std |-> Zero,
                          residuals |-> Zeros(Len(y) - order), stored |-> FALSE]
    IN  IF fit_too_short(y, order)
        THEN [raised |-> TRUE, phi |-> <<>>, c |-> Zero, residual_std |-> Zero,
              residuals |-> <<>>, stored |-> FALSE]
        ELSE IF StdBelowEps(Slice(y, 1, Len(y) - order))
        THEN degenerate(IF Len(y) > order THEN np_mean(y_target) ELSE Last(y))
        ELSE LET X == build_design_matrix(y, order)
             IN  IF svd_fails /\ (\E r \in 1..Len(X) : HasNaN(X[r]))
                 THEN degenerate(np_mean(y_target))
                 ELSE LET coeffs    == np_linalg_lstsq(X, y_target)
                          finite    == ~HasNaN(coeffs)
                          phi       == IF finite THEN Tail(coeffs) ELSE Zeros(order)
                          c         == IF finite THEN coeffs[1]
                                       ELSE IF Len(y_target) > 0 THEN np_mean(y_target)
                                       ELSE Last(y)
                          fitted    == MatVec(X, coeffs)
                          residuals == [r \in 1..Len(X) |-> Sub(y_target[r], fitted[r])]
                      IN  [raised |-> FALSE, phi |-> phi, c |-> c,
                           residual_std |-> IF Len(residuals) > 0 THEN np_std(residuals)
                                            ELSE Zero,
                           residuals |-> residuals, stored |-> TRUE]

-----------------------------------------------------------------------------
(* patterns.py: CyclicalPatternExtractor.                                  *)

\* the keys of period_map
SupportedPeriods == {"hour", "day", "week", "month", "day_of_year", "quarter"}

DaysInJanuary == 31

\* period_map[period](ts), for a timestamp of January or February 2024
period_func(period, t) ==
    CASE period = "hour"        -> ts_hour(t)
      [] period = "day"         -> ts_dayofweek(t)
      [] period = "week"        -> ts_day(t) \div DaysPerWeek + 1
      [] period = "month"       -> IF ts_day(t) < DaysInJanuary THEN 1 ELSE 2
      [] period = "day_of_year" -> ts_day(t) + 1
      [] period = "quarter"     -> 1

\* a fill that knows no period and returns the pattern as it is
all_periods_none(period) == {}

\* _fill_missing_periods: all_periods
all_periods(period) ==
    CASE period = "hour"        -> 0..23
      [] period = "day"         -> 0..6
      [] period = "week"        -> 1..53
      [] period = "month"       -> 1..12
      [] period = "day_of_year" -> 1..366
      [] period = "quarter"     -> 1..4

\* extract(df, target_col) on rows (ts, v): per period the mean of its non-missing
\* values minus the overall mean of the non-missing values; 0.0 for an unobserved period
extract(period, ts, v) ==
    LET observed == {period_func(period, ts[i]) : i \in 1..Len(ts)}
        group(p) == SelectSeq([i \in 1..Len(ts) |-> IF period_func(period, ts[i]) = p
                                                   THEN v[i] ELSE NaN], IsFinite)
        overall_mean == pd_mean(v)
    IN  [p \in observed \cup all_periods(period) |->
            IF p \in observed THEN Sub(np_mean(group(p)), overall_mean) ELSE Zero]

\* CyclicalPatternExtractor(period).extract(df, target_col): its three checks,
\* then the pattern.  raised = TRUE when it raises ValueError
CyclicalPatternExtractor_extract(d, period) ==
    IF ~d.has_target \/ ~d.datetime_index \/ period \notin SupportedPeriods
    THEN [raised |-> TRUE, pattern |-> <<>>]
    ELSE [raised |-> FALSE, pattern |-> extract(period, d.t, d.v)]

\* apply(pattern, timestamps)
apply(period, pattern, timestamps) ==
    [i \in 1..Len(timestamps) |->
        LET period_val == period_func(period, timestamps[i])
        IN  IF period_val \in DOMAIN pattern THEN pattern[period_val] ELSE Zero]


-----------------------------------------------------------------------------
(* counterfactual.py: TimeSeriesCounterfactualGenerator.                   *)

\* an optional number (min_value, max_value, the noise seed)
None == [set |-> FALSE, v |-> Zero]

Some(x) == [set |-> TRUE, v |-> x]

\* the event names of the model; "" is the empty name
NameCode(name) == CASE name = "" -> 0 [] name = "a" -> 1 [] name = "b" -> 2 [] name = "c" -> 3

\* 2**31 - 1
MaxInt31 == 2147483647

\* h % (2**31) for a hash h of 32 bits, as Python computes it (never negative)
Mod2p31(h) == IF h >= 0 THEN h ELSE (h + MaxInt31) + 1

\* hash(event_name): Python salts the hash of a str with a key drawn when the
\* process starts (PYTHONHASHSEED), so it is a function of the name and the salt;
\* it may be negative
str_hash(name, salt) ==
    (IF (NameCode(name) + salt) % 2 = 0 THEN 1 ELSE -1)
        * (NameCode(name) * 1000003 + salt * 8192 + NameCode(name) * salt)

\* the k-th standard normal draw of np.random.RandomState(seed); seed = None seeds
\* the generator from the operating system's entropy
StdNormal(seed, entropy, k) ==
    LET state == IF seed.set THEN seed.v ELSE entropy
    IN  Num(((state + 3 * k) % 7) - 3)

\* an ARModel object as __init__ leaves it: nothing fitted yet
ARModel_init(order) ==
    [order |-> order, coefficients |-> [set |-> FALSE, v |-> <<>>],
     residuals |-> [set |-> FALSE, v |-> <<>>], residual_std |-> None]

\* the caller holds no ARModel object
NoModel == ARModel_init(0)

\* the ARModel object after a fit call that returned out: only a fit that gets
\* past the solve assigns self.coefficients, self.residuals, self.residual_std
ARModel_after_fit(self, out) ==
    IF out.stored
    THEN [self EXCEPT !.coefficients = Some(<<out.c>> \o out.phi),
                      !.residuals = Some(out.residuals),
                      !.residual_std = Some(out.residual_std)]
    ELSE self

\* the noise forecast adds at step i: one draw scaled by noise_std, or by
\* self.residual_std when noise_std is None, when that is above zero
forecast_noise(self, add_noise, noise_std, random_seed, entropy, i) ==
    LET noise_std_to_use == IF noise_std.set THEN noise_std.v ELSE self.residual_std.v
    IN  IF add_noise /\ Lt(Zero, noise_std_to_use)
        THEN Mul(noise_std_to_use, StdNormal(random_seed, entropy, i))
        ELSE Zero

\* state = np.append(state[1:], forecast[i])
forecast_next_state(state, forecast_i) == Append(Tail(state), forecast_i)

\* the loop of ARModel.forecast from step i on: each step's value and the state
\* after the step
RECURSIVE forecast_loop(_, _, _, _, _, _)
forecast_step(c, phi, noise, state, i, horizon, forecast_i) ==
    <<[value |-> forecast_i, state |-> forecast_next_state(state, forecast_i)]>>
    \o forecast_loop(c, phi, noise, forecast_next_state(state, forecast_i), i + 1, horizon)

forecast_loop(c, phi, noise, state, i, horizon) ==
    IF i > horizon THEN <<>>
    ELSE forecast_step(c, phi, noise, state, i, horizon,
            Add(Add(c, np_dot(phi, Slice(state, Len(state) - Len(phi) + 1, Len(state)))),
                noise[i]))

\* ARModel.forecast(last_values, horizon, c, phi, add_noise, noise_std,
\* random_seed) on the object self, phi holding at least one coefficient.
\* entropy: what the global numpy generator draws from when random_seed is None.
\* last_values in the outcome: the caller's array after the call
ARModel_forecast(self, last_values, horizon, c, phi, add_noise, noise_std, random_seed, entropy) ==
    LET fail(exc) == [raised |-> TRUE, exc |-> exc, forecast |-> <<>>, states |-> <<>>,
                      last_values |-> last_values]
        steps == forecast_loop(c, phi,
                    [i \in 1..horizon |->
                        forecast_noise(self, add_noise, noise_std, random_seed, entropy, i)],
                    last_values, 1, horizon)
    IN  IF Len(last_values) < Len(phi) THEN fail("ValueError")
        ELSE IF horizon > 0 /\ add_noise /\ ~noise_std.set /\ ~self.residual_std.set
        THEN fail("TypeError")
        ELSE [raised |-> FALSE, exc |-> "",
              forecast |-> [i \in 1..horizon |-> steps[i].value],
              states |-> [i \in 1..horizon |-> steps[i].state],
              last_values |-> last_values]

\* the loop of _generate_forecast from step i on: c + dot(phi, state) plus the
\* cyclical adjustment, which then enters the state
RECURSIVE ar_recursion(_, _, _, _, _)
\* a step that puts the bare AR base value, without the adjustment, into the state
ar_step_bare(c, phi, pattern_adjustments, state, i, forecast_i) ==
    <<forecast_i>> \o
    ar_recursion(c, phi, pattern_adjustments,
                 Append(Tail(state), Sub(forecast_i, pattern_adjustments[i])), i + 1)

ar_step(c, phi, pattern_adjustments, state, i, forecast_i) ==
    <<forecast_i>> \o
    ar_recursion(c, phi, pattern_adjustments, Append(Tail(state), forecast_i), i + 1)

ar_recursion(c, phi, pattern_adjustments, state, i) ==
    IF i > Len(pattern_adjustments) THEN <<>>
    ELSE ar_step(c, phi, pattern_adjustments, state, i,
                 Add(Add(c, np_dot(phi, Slice(state, Len(state) - Len(phi) + 1, Len(state)))),
                     pattern_adjustments[i]))

\* the seed of _generate_forecast
noise_seed(event_name, salt) ==
    IF event_name # "" THEN [set |-> TRUE, v |-> Mod2p31(str_hash(event_name, salt))]
    ELSE [set |-> FALSE, v |-> 0]

\* noise scaled by residual_std alone, whatever noise_factor is
add_noise_unscaled(g, forecast, residual_std, seed, entropy) ==
    IF Lt(Zero, residual_std)
    THEN [i \in 1..Len(forecast) |->
             Add(forecast[i], Mul(residual_std, StdNormal(seed, entropy, i)))]
    ELSE forecast

\* the noise of _generate_forecast, added after the loop
add_noise(g, forecast, residual_std, seed, entropy) ==
    IF Lt(Zero, g.noise_factor) /\ Lt(Zero, residual_std)
    THEN [i \in 1..Len(forecast) |->
             Add(forecast[i], Mul(Mul(residual_std, g.noise_factor),
                                  StdNormal(seed, entropy, i)))]
    ELSE forecast

\* a recursion in which each step's noise is added before the value enters the
\* state, as in ARModel.forecast
RECURSIVE ar_recursion_noisy(_, _, _, _, _, _)
ar_recursion_noisy(c, phi, pattern_adjustments, noise, state, i) ==
    IF i > Len(pattern_adjustments) THEN <<>>
    ELSE LET forecast_i ==
                 Add(Add(Add(c, np_dot(phi, Slice(state, Len(state) - Len(phi) + 1,
                                                  Len(state)))),
                         pattern_adjustments[i]),
                     noise[i])
         IN  <<forecast_i>> \o
             ar_recursion_noisy(c, phi, pattern_adjustments, noise,
                                Append(Tail(state), forecast_i), i + 1)

\* a _generate_forecast whose noisy values enter the rolling state
generate_forecast_noisy_state(g, forecast_index, model_params, period, pattern, last_values, event_name, env) ==
    ar_recursion_noisy(model_params.c, model_params.phi,
                       apply(period, pattern, forecast_index),
                       [i \in 1..Len(forecast_index) |->
                           IF Lt(Zero, g.noise_factor) /\ Lt(Zero, model_params.residual_std)
                           THEN Mul(Mul(model_params.residual_std, g.noise_factor),
                                    StdNormal(noise_seed(event_name, env.salt), env.entropy, i))
                           ELSE Zero],
                       last_values, 1)

\* _generate_forecast.  env: the process's hash salt, the entropy a seedless
\* generator draws, whether LAPACK fails on NaN input
generate_forecast(g, forecast_index, model_params, period, pattern, last_values, event_name, env) ==
    add_noise(g,
              ar_recursion(model_params.c, model_params.phi,
                           apply(period, pattern, forecast_index), last_values, 1),
              model_params.residual_std, noise_seed(event_name, env.salt), env.entropy)

\* the outcome of a call that raises: every raise in generate is a ValueError;
\* kind names the raise site
Raise(kind) ==
    [ok |-> FALSE, exc |-> "ValueError", kind |-> kind, index |-> <<>>, values |-> <<>>,
     column |-> ""]

\* the clamp of generate
clamp(g, forecast) ==
    LET lo == IF g.min_value.set THEN [i \in 1..Len(forecast) |-> np_maximum(forecast[i], g.min_value.v)]
              ELSE forecast
    IN  IF g.max_value.set THEN [i \in 1..Len(lo) |-> np_minimum(lo[i], g.max_value.v)]
        ELSE lo

\* a pre-event window that takes the observation at event_start in
pre_event_rows_inclusive(d, s) ==
    SelectSeq([i \in 1..Len(d.t) |-> i], LAMBDA i : d.t[i] <= s)

\* the rows of the frame strictly before event_start: df[df.index < event_start]
pre_event_rows(d, s) == SelectSeq([i \in 1..Len(d.t) |-> i], LAMBDA i : d.t[i] < s)

\* the seasonal granularity generate settles on
cycle_period_of(g, pre_t) ==
    IF g.cycle_period # "auto" THEN g.cycle_period
    ELSE IF g.auto_detect THEN auto_detect_cycle_period(pre_t)
    ELSE "hour"

\* generate, from the forecast index on: the recursion, the noise, the clamp and
\* the two-column result
generate_result(g, forecast_index, model_params, cycle_period, pattern, y, event_name, env) ==
    [ok |-> TRUE, exc |-> "", kind |-> "", index |-> forecast_index,
     values |-> clamp(g, generate_forecast(g, forecast_index, model_params, cycle_period,
                         pattern, Slice(y, Len(y) - g.ar_order + 1, Len(y)),
                         event_name, env)),
     column |-> event_name]

\* generate, from the inferred frequency on
generate_horizon(g, s, forecast_end, freq, model_params, cycle_period, pre_t, y, event_name, env) ==
    IF freq.kind = "error" THEN Raise("FrequencyInference")
    ELSE IF s >= forecast_end THEN Raise("InvalidEventWindow")
    ELSE LET fi == create_forecast_index(Naive(s), Naive(forecast_end), freq)
         IN  IF ~fi.ok THEN Raise("EmptyForecastWindow")
             ELSE generate_result(g, fi.index, model_params, cycle_period,
                                  extract(cycle_period, pre_t, y), y, event_name, env)

\* generate, from the seasonal granularity on: the model is fitted, the pattern
\* extracted, the frequency inferred
generate_fitted(g, s, e, cycle_period, pre_t, y, event_name, env) ==
    IF ARModel_init_raises(g.ar_order) THEN Raise("InvalidAROrder")
    ELSE IF cycle_period \notin SupportedPeriods THEN Raise("UnsupportedPeriod")
    ELSE generate_horizon(g, s, e + g.forecast_days * HoursPerDay, generate_freq(pre_t),
                          ARModel_fit(y, g.ar_order, env.svd_fails), cycle_period,
                          pre_t, y, event_name, env)

\* generate, from the pre-event window (timestamps pre_t, target values y) on
generate_window(g, s, e, pre_t, y, event_name, env) ==
    IF Len(pre_t) < g.ar_order + 1 THEN Raise("InsufficientHistory")
    ELSE IF \A k \in 1..Len(y) : IsNaN(y[k]) THEN Raise("AllMissingTarget")
    ELSE generate_fitted(g, s, e, cycle_period_of(g, pre_t), pre_t, y, event_name, env)

\* generate, from the validated event boundaries s < e on; pre: the rows before s
generate_sliced(d, g, s, e, pre, event_name, env) ==
    generate_window(g, s, e, [k \in 1..Len(pre) |-> d.t[pre[k]]],
                    [k \in 1..Len(pre) |-> d.v[pre[k]]], event_name, env)

\* generate(df, event_start, event_end, event_name) on the generator configured g
generate(d, g, event_start, event_end, event_name, env) ==
    IF validate_event_dates(event_start, event_end) THEN Raise("InvalidEventWindow")
    ELSE IF ~d.datetime_index THEN Raise("NotTimeIndexed")
    ELSE IF ~d.has_target THEN Raise("TargetColumnMissing")
    ELSE generate_sliced(d, g, normalize_timezone(event_start).wall,
                         normalize_timezone(event_end).wall,
                         pre_event_rows(d, normalize_timezone(event_start).wall),
                         event_name, env)

\* an Event as generate_multiple reads it
EventOf(start, end, name) == [start |-> start, end |-> end, name |-> name]

\* the environment of the k-th generate call of a batch
EnvAt(env, k) == [env EXCEPT !.entropy = env.entropy + k - 1]

\* the four errors the specification lists as validation/data errors
ListedErrors ==
    {"InvalidEventWindow", "InsufficientHistory", "AllMissingTarget", "EmptyForecastWindow"}

\* an except clause that catches the listed errors only
Caught_listed(o) == o.exc = "ValueError" /\ o.kind \in ListedErrors

\* the exceptions the except clause of generate_multiple catches
Caught(o) == o.exc = "ValueError"

\* the cell of forecast frame o at timestamp t after index alignment
CellAt(o, t) ==
    IF \E i \in 1..Len(o.index) : o.index[i] = t
    THEN o.values[CHOOSE i \in 1..Len(o.index) : o.index[i] = t]
    ELSE NaN

\* the column names in the order combined_df gets them
RECURSIVE ColumnOrder(_)
ColumnOrder(forecasts) ==
    IF forecasts = <<>> THEN <<>>
    ELSE LET before == ColumnOrder(Slice(forecasts, 1, Len(forecasts) - 1))
             col    == Last(forecasts).column
         IN  IF col \in SeqToSet(before) THEN before ELSE Append(before, col)

\* a check that raises on one forecast as on none
no_events_processed_one(event_forecasts) == Len(event_forecasts) <= 1

\* the check after the loop: TRUE when generate_multiple raises
no_events_processed(event_forecasts) == Len(event_forecasts) = 0

\* a timeline taken from the first forecast frame alone
all_dates_first(event_forecasts) == SortedSeq(SeqToSet(event_forecasts[1].index))

\* all_dates: the set of every forecast frame's timestamps, sorted
all_dates_of(event_forecasts) ==
    SortedSeq(UNION {SeqToSet(event_forecasts[j].index) : j \in 1..Len(event_forecasts)})

\* the frame whose column col of combined_df holds at the end: the last one assigned
column_source(event_forecasts, col) ==
    event_forecasts[CHOOSE j \in 1..Len(event_forecasts) :
        /\ event_forecasts[j].column = col
        /\ \A j2 \in (j + 1)..Len(event_forecasts) : event_forecasts[j2].column # col]

\* a loop that keeps the first event's start for every later event
loop_outcomes_stale(d, g, events, env) ==
    [k \in 1..Len(events) |->
        generate(d, g, events[1].start, events[k].end, events[k].name, EnvAt(env, k))]

\* the loop of generate_multiple: the outcome of generate for each event in turn
loop_outcomes(d, g, events, env) ==
    [k \in 1..Len(events) |->
        generate(d, g, events[k].start, events[k].end, events[k].name, EnvAt(env, k))]

\* the merge of generate_multiple: the frame over the union of the timestamps,
\* each column aligned on it
merge_forecasts(event_forecasts, all_dates, columns) ==
    [c \in SeqToSet(columns) |->
        [r \in 1..Len(all_dates) |->
            CellAt(column_source(event_forecasts, c), all_dates[r])]]

\* what generate_multiple does with the outcomes of its generate calls: an
\* exception it does not catch ends it, zero successes raise, else the merge.
\* calls: the generate calls the loop made, in order, with their outcomes
batch_result(outcomes, stop, event_forecasts, all_dates, columns) ==
    LET made == Slice(outcomes, 1, IF stop > Len(outcomes) THEN Len(outcomes) ELSE stop)
        warnings == [k \in {k \in 1..(stop - 1) : ~outcomes[k].ok} |-> outcomes[k].kind]
        fail(exc, kind) == [ok |-> FALSE, exc |-> exc, kind |-> kind, index |-> <<>>,
                            columns |-> <<>>, cells |-> <<>>, calls |-> made,
                            warnings |-> warnings]
    IN  IF stop <= Len(outcomes) THEN fail(outcomes[stop].exc, outcomes[stop].kind)
        ELSE IF no_events_processed(event_forecasts)
        THEN fail("ValueError", "NoEventsProcessed")
        ELSE [ok |-> TRUE, exc |-> "", kind |-> "", index |-> all_dates,
              columns |-> columns,
              cells |-> merge_forecasts(event_forecasts, all_dates, columns),
              calls |-> made, warnings |-> warnings]

\* the first call whose exception the loop does not catch (past the end when none)
first_escaped(outcomes) ==
    LET escaped == {k \in 1..Len(outcomes) : ~outcomes[k].ok /\ ~Caught(outcomes[k])}
    IN  IF escaped = {} THEN Len(outcomes) + 1 ELSE SetMin(escaped)

surviving(outcomes, stop) == SelectSeq(Slice(outcomes, 1, stop - 1), LAMBDA o : o.ok)

collect(outcomes, stop, event_forecasts) ==
    batch_result(outcomes, stop, event_forecasts, all_dates_of(event_forecasts),
                 ColumnOrder(event_forecasts))

process(outcomes, stop) == collect(outcomes, stop, surviving(outcomes, stop))

run_batch(outcomes) == process(outcomes, first_escaped(outcomes))

\* generate_multiple(df, events)
generate_multiple(d, g, events, env) == run_batch(loop_outcomes(d, g, events, env))

-----------------------------------------------------------------------------
(* events.py: Event and EventManager.  An Event object is its fields start, *)
(* end and name (metadata is never read by the code modelled here).         *)

ts_le(a, b) == ~a.nat /\ ~b.nat /\ a.wall <= b.wall

\* Event.__post_init__ on an object ev: both fields are assigned before the
\* check; raised = TRUE when it raises ValueError
Event_post_init(ev) ==
    [raised |-> ts_ge(normalize_timezone(ev.start), normalize_timezone(ev.end)),
     event  |-> [ev EXCEPT !.start = normalize_timezone(ev.start),
                           !.end = normalize_timezone(ev.end)]]

\* Event(start, end, name): the generated __init__ stores the fields and calls
\* __post_init__
Event_init(start, end, name) == Event_post_init(EventOf(start, end, name))

\* a value of the dictionary from_dict reads: a timestamp, or None
Given(ts) == [given |-> TRUE, ts |-> ts]

Missing == [given |-> FALSE, ts |-> Naive(0)]

\* pd.Timestamp(x): a timestamp as it is, NaT for None
pd_Timestamp(x) == IF x.given THEN x.ts ELSE NaT

\* Event.from_dict(data)
Event_from_dict(data) ==
    Event_init(pd_Timestamp(data.start), pd_Timestamp(data.end), data.name)

\* Event.duration: end - start, NaT when either is
Event_duration(ev) ==
    IF ev.start.nat \/ ev.end.nat THEN [nat |-> TRUE, hours |-> 0]
    ELSE [nat |-> FALSE, hours |-> ev.end.wall - ev.start.wall]

\* Event.contains(timestamp)
Event_contains(ev, timestamp) ==
    /\ ts_le(ev.start, normalize_timezone(timestamp))
    /\ ts_le(normalize_timezone(timestamp), ev.end)

\* Event.overlaps(other)
Event_overlaps(ev, other) == ~(ts_lt(ev.end, other.start) \/ ts_lt(other.end, ev.start))

\* Event.to_dict
Event_to_dict(ev) == [start |-> ev.start, end |-> ev.end, name |-> ev.name]

\* EventManager._validate_events on the objects refs of heap h: __post_init__
\* on each in turn, stopping at the first that raises.  [raised, heap]
RECURSIVE validate_events(_, _, _)
validate_events(h, refs, k) ==
    IF k > Len(refs) THEN [raised |-> FALSE, heap |-> h]
    ELSE LET r == Event_post_init(h[refs[k]])
         IN  IF r.raised THEN [raised |-> TRUE, heap |-> [h EXCEPT ![refs[k]] = r.event]]
             ELSE validate_events([h EXCEPT ![refs[k]] = r.event], refs, k + 1)

\* EventManager.find_overlapping: the pairs (as positions in self.events)
find_overlapping(h, refs) ==
    {<<i, j>> \in (1..Len(refs)) \X (1..Len(refs)) :
        i < j /\ Event_overlaps(h[refs[i]], h[refs[j]])}

\* EventManager.filter_by_date_range(start, end)
filter_by_date_range(h, refs, start, end) ==
    SelectSeq(refs, LAMBDA r :
        /\ ts_le(h[r].start, normalize_timezone(end))
        /\ ts_ge(h[r].end, normalize_timezone(start)))

\* EventManager.get_event_by_name(name): the first match, 0 for None
get_event_by_name(h, refs, name) ==
    LET hits == {k \in 1..Len(refs) : h[refs[k]].name = name}
    IN  IF hits = {} THEN 0 ELSE refs[SetMin(hits)]

\* EventManager.to_list
to_list(h, refs) == [k \in 1..Len(refs) |-> Event_to_dict(h[refs[k]])]

-----------------------------------------------------------------------------
(* The state machine: a caller holding one series and one generator.       *)

Frame(t, v, datetime_index, has_target) ==
    [t |-> t, v |-> v, datetime_index |-> datetime_index, has_target |-> has_target]

Config(ar_order, cycle_period, forecast_days, min_value, max_value, noise_factor) ==
    [ar_order |-> ar_order, cycle_period |-> cycle_period, forecast_days |-> forecast_days,
     min_value |-> min_value, max_value |-> max_value, noise_factor |-> noise_factor,
     auto_detect |-> TRUE]

NoCall == [op |-> "none"]

\* the salts a process may start with, the entropy a seedless generator may draw
Salts == {0, 1}

Entropies == {0, 1}

\* what LAPACK may do on this frame
SvdOutcomes(d) == IF HasNaN(d.v) THEN BOOLEAN ELSE {FALSE}

\* a call that fills the missing values of the caller's frame in place
frame_after_call_filled(d) ==
    [d EXCEPT !.v = [i \in 1..Len(d.v) |-> IF IsNaN(d.v[i]) THEN Zero ELSE d.v[i]]]

\* the caller's frame after a generate or generate_multiple call: generate
\* slices it into a copy and extract copies again, so it is as before
frame_after_call(d) == d

\* the caller calls generate for one event of its agenda
Generate ==
    /\ budget > 0
    /\ \E ev \in agenda :
       \E entropy \in (IF ev.name = "" THEN Entropies ELSE {0}) :
       \E svd_fails \in SvdOutcomes(df) :
          last' = [op |-> "generate", df |-> df, events |-> <<ev>>,
                   env |-> [salt |-> hashSalt, entropy |-> entropy],
                   out |-> generate(df, cfg, ev.start, ev.end, ev.name,
                              [salt |-> hashSalt, entropy |-> entropy,
                               svd_fails |-> svd_fails])]
    /\ prev' = last
    /\ budget' = budget - 1
    /\ df' = frame_after_call(df)
    /\ UNCHANGED <<hashSalt, cfg, agenda, heap, managers, evOut, model>>

\* the program ends and is started again: Python draws a new hash salt
Restart ==
    /\ budget > 0
    /\ last.op # "none"
    /\ hashSalt = last.env.salt
    /\ hashSalt' \in Salts \ {hashSalt}
    /\ UNCHANGED <<df, cfg, last, prev, budget, agenda, heap, managers, evOut, model>>


\* the longest list of events the caller passes to generate_multiple
MaxBatch == 3

\* the caller calls generate_multiple for a list of events of its agenda
GenerateMultiple ==
    /\ budget > 0
    /\ \E n \in 0..MaxBatch :
       \E events \in [1..n -> agenda] :
       \E svd_fails \in SvdOutcomes(df) :
          last' = [op |-> "generate_multiple", df |-> df, events |-> events,
                   env |-> [salt |-> hashSalt, entropy |-> 0],
                   out |-> generate_multiple(df, cfg, events,
                              [salt |-> hashSalt, entropy |-> 0, svd_fails |-> svd_fails])]
    /\ prev' = last
    /\ budget' = budget - 1
    /\ df' = frame_after_call(df)
    /\ UNCHANGED <<hashSalt, cfg, agenda, heap, managers, evOut, model>>

\* the orders a list of n events can be put in
Orders(n) == {f \in [1..n -> 1..n] : \A i, j \in 1..n : f[i] = f[j] => i = j}

\* the caller repeats the generate_multiple call it just made with the same
\* events in another order
GenerateMultipleReordered ==
    /\ last.op = "generate_multiple"
    /\ prev.op = "none"
    /\ \E f \in Orders(Len(last.events)) :
       \E svd_fails \in SvdOutcomes(df) :
          LET events == [k \in 1..Len(last.events) |-> last.events[f[k]]]
          IN  last' = [op |-> "generate_multiple", df |-> df, events |-> events,
                       env |-> [salt |-> hashSalt, entropy |-> 0],
                       out |-> generate_multiple(df, cfg, events,
                                  [salt |-> hashSalt, entropy |-> 0,
                                   svd_fails |-> svd_fails])]
    /\ prev' = last
    /\ df' = frame_after_call(df)
    /\ UNCHANGED <<hashSalt, cfg, agenda, budget, heap, managers, evOut, model>>

\* the values an observation may take
Values == {Num(0), Num(1), Num(2), NaN}

\* between two calls the caller revises one observation of its series
Revise ==
    /\ budget > 0
    /\ last.op # "none"
    /\ df = last.df
    /\ \E i \in 1..Len(df.v) : \E v \in Values \ {df.v[i]} :
          df' = [df EXCEPT !.v[i] = v]
    /\ UNCHANGED <<hashSalt, cfg, last, prev, budget, agenda, heap, managers, evOut, model>>

\* between two calls the caller appends the next observation to its series
AppendRow ==
    /\ budget > 0
    /\ last.op # "none"
    /\ df = last.df
    /\ \E v \in Values :
          df' = [df EXCEPT !.t = Append(df.t, Last(df.t) + 1), !.v = Append(df.v, v)]
    /\ UNCHANGED <<hashSalt, cfg, last, prev, budget, agenda, heap, managers, evOut, model>>

\* between two calls the caller drops the last observation of its series
DropRow ==
    /\ budget > 0
    /\ last.op # "none"
    /\ df = last.df
    /\ Len(df.t) > 1
    /\ df' = [df EXCEPT !.t = Slice(df.t, 1, Len(df.t) - 1),
                        !.v = Slice(df.v, 1, Len(df.v) - 1)]
    /\ UNCHANGED <<hashSalt, cfg, last, prev, budget, agenda, heap, managers, evOut, model>>

\* the most Event objects and EventManagers the caller creates
MaxEvents == 2

MaxManagers == 1

\* the timestamps the caller builds events from and asks about
EventStamps == {Stamp(w, tz) : w \in 0..2, tz \in {NoTz, "UTC"}}

QueryStamps == {Naive(1), Stamp(2, "UTC")}

EventNames == {"a", "b"}

Answer(op, raised, value) == [op |-> op, raised |-> raised, value |-> value]

\* the caller constructs Event(start, end, name); the object exists only when
\* the constructor returns
NewEvent ==
    /\ Len(heap) < MaxEvents
    /\ \E start \in EventStamps, end \in EventStamps, name \in EventNames :
          LET r == Event_init(start, end, name)
          IN  /\ heap' = IF r.raised THEN heap ELSE Append(heap, r.event)
              /\ evOut' = Answer("Event", r.raised, <<start, end, name>>)
    /\ UNCHANGED <<hashSalt, df, cfg, last, prev, budget, agenda, managers, model>>

\* the caller constructs an Event with Event.from_dict(data)
FromDict ==
    /\ Len(heap) < MaxEvents
    /\ \E start \in {Given(Naive(0)), Given(Stamp(1, "UTC")), Missing},
          end \in {Given(Naive(1)), Given(Stamp(0, "UTC")), Missing},
          name \in EventNames :
          LET r == Event_from_dict([start |-> start, end |-> end, name |-> name])
          IN  /\ heap' = IF r.raised THEN heap ELSE Append(heap, r.event)
              /\ evOut' = Answer("from_dict", r.raised, <<start, end, name>>)
    /\ UNCHANGED <<hashSalt, df, cfg, last, prev, budget, agenda, managers, model>>

\* the caller constructs EventManager(events) on a list of its Event objects
NewManager ==
    /\ Len(managers) < MaxManagers
    /\ \E n \in 0..MaxEvents : \E refs \in [1..n -> 1..Len(heap)] :
          LET r == validate_events(heap, refs, 1)
          IN  /\ heap' = r.heap
              /\ managers' = IF r.raised THEN managers ELSE Append(managers, refs)
              /\ evOut' = Answer("EventManager", r.raised, refs)
    /\ UNCHANGED <<hashSalt, df, cfg, last, prev, budget, agenda, model>>

Duration ==
    /\ \E i \in 1..Len(heap) :
          evOut' = Answer("duration", FALSE, <<i, Event_duration(heap[i])>>)
    /\ UNCHANGED <<hashSalt, df, cfg, last, prev, budget, agenda, heap, managers, model>>

Contains ==
    /\ \E i \in 1..Len(heap), ts \in QueryStamps :
          evOut' = Answer("contains", FALSE, <<i, ts, Event_contains(heap[i], ts)>>)
    /\ UNCHANGED <<hashSalt, df, cfg, last, prev, budget, agenda, heap, managers, model>>

Overlaps ==
    /\ \E i \in 1..Len(heap), j \in 1..Len(heap) :
          evOut' = Answer("overlaps", FALSE, <<i, j, Event_overlaps(heap[i], heap[j])>>)
    /\ UNCHANGED <<hashSalt, df, cfg, last, prev, budget, agenda, heap, managers, model>>

ToDict ==
    /\ \E i \in 1..Len(heap) :
          evOut' = Answer("to_dict", FALSE, <<i, Event_to_dict(heap[i])>>)
    /\ UNCHANGED <<hashSalt, df, cfg, last, prev, budget, agenda, heap, managers, model>>

FindOverlapping ==
    /\ \E m \in 1..Len(managers) :
          evOut' = Answer("find_overlapping", FALSE, <<m, find_overlapping(heap, managers[m])>>)
    /\ UNCHANGED <<hashSalt, df, cfg, last, prev, budget, agenda, heap, managers, model>>

FilterByDateRange ==
    /\ \E m \in 1..Len(managers), start \in QueryStamps, end \in QueryStamps :
          evOut' = Answer("filter_by_date_range", FALSE,
                          <<m, start, end, filter_by_date_range(heap, managers[m], start, end)>>)
    /\ UNCHANGED <<hashSalt, df, cfg, last, prev, budget, agenda, heap, managers, model>>

GetEventByName ==
    /\ \E m \in 1..Len(managers), name \in EventNames :
          evOut' = Answer("get_event_by_name", FALSE,
                          <<m, name, get_event_by_name(heap, managers[m], name)>>)
    /\ UNCHANGED <<hashSalt, df, cfg, last, prev, budget, agenda, heap, managers, model>>

ToList ==
    /\ \E m \in 1..Len(managers) :
          evOut' = Answer("to_list", FALSE, <<m, to_list(heap, managers[m])>>)
    /\ UNCHANGED <<hashSalt, df, cfg, last, prev, budget, agenda, heap, managers, model>>


\* the caller builds ARModel(order) and calls fit on the array it holds
Fit ==
    /\ budget > 0
    /\ \E svd_fails \in SvdOutcomes(df) :
          /\ last' = [op |-> "fit", y |-> df.v, order |-> cfg.ar_order,
                      out |-> ARModel_fit(df.v, cfg.ar_order, svd_fails)]
          /\ model' = ARModel_after_fit(ARModel_init(cfg.ar_order),
                                        ARModel_fit(df.v, cfg.ar_order, svd_fails))
    /\ prev' = last
    /\ budget' = budget - 1
    /\ UNCHANGED <<hashSalt, df, cfg, agenda, heap, managers, evOut>>

\* the arrays the caller fits a model on a second time: a constant history, a
\* zigzag one, one with a missing value at its end, and one too short
RefitArrays ==
    {<<Num(2), Num(2), Num(2)>>, <<Num(0), Num(2), Num(0), Num(1)>>,
     <<Num(1), Num(2), NaN>>, <<Num(1)>>}

\* right after the first fit the caller calls fit again, on the same ARModel
\* object, with another array
Refit ==
    /\ last.op = "fit"
    /\ prev.op = "none"
    /\ model.order >= 1
    /\ \E y \in RefitArrays :
       \E svd_fails \in (IF HasNaN(y) THEN BOOLEAN ELSE {FALSE}) :
          /\ last' = [op |-> "fit", y |-> y, order |-> model.order,
                      out |-> ARModel_fit(y, model.order, svd_fails)]
          /\ model' = ARModel_after_fit(model, ARModel_fit(y, model.order, svd_fails))
    /\ prev' = last
    /\ UNCHANGED <<hashSalt, df, cfg, agenda, budget, heap, managers, evOut>>

\* the longest seed array and the longest horizon the caller passes to forecast
MaxSeedLen == 3

MaxHorizon == 2

\* the coefficient vectors, intercepts, noise levels and seeds the caller passes
PhiChoices == {<<Rat(1, 2)>>, <<Num(-1)>>, <<Rat(1, 2), Num(-1)>>, <<Num(1), Num(1)>>}

SeedArrays == UNION {[1..n -> {Num(1), Num(2)}] : n \in 0..MaxSeedLen}

NoiseStds == {None, Some(Zero), Some(Num(1))}

RandomSeeds == {[set |-> FALSE, v |-> 0], [set |-> TRUE, v |-> 3]}

\* the caller calls forecast on the ARModel object it holds
Forecast ==
    /\ budget > 0
    /\ model.order >= 1
    /\ \E last_values \in SeedArrays, horizon \in 0..MaxHorizon, c \in {Zero, Num(1)},
          phi \in PhiChoices, with_noise \in BOOLEAN, noise_std \in NoiseStds,
          random_seed \in RandomSeeds, entropy \in Entropies :
          last' = [op |-> "forecast", self |-> model, last_values |-> last_values,
                   horizon |-> horizon, c |-> c, phi |-> phi, add_noise |-> with_noise,
                   noise_std |-> noise_std, random_seed |-> random_seed,
                   entropy |-> entropy,
                   out |-> ARModel_forecast(model, last_values, horizon, c, phi, with_noise,
                                            noise_std, random_seed, entropy)]
    /\ prev' = last
    /\ budget' = budget - 1
    /\ UNCHANGED <<hashSalt, df, cfg, agenda, heap, managers, evOut, model>>

\* generate's choice of the seasonal granularity for an event of the agenda, on
\* its own: the rows before the event's start, then the configured granularity or
\* the detected one
DetectCycle ==
    /\ budget > 0
    /\ df.datetime_index
    /\ \E ev \in agenda :
          last' = [op |-> "cycle", df |-> df, events |-> <<ev>>,
                   out |-> cycle_period_of(cfg,
                              LET pre == pre_event_rows(df, normalize_timezone(ev.start).wall)
                              IN  [k \in 1..Len(pre) |-> df.t[pre[k]]])]
    /\ prev' = last
    /\ budget' = budget - 1
    /\ UNCHANGED <<hashSalt, df, cfg, agenda, heap, managers, evOut, model>>

\* the caller builds CyclicalPatternExtractor(period) and calls extract on its frame
Extract ==
    /\ budget > 0
    /\ last' = [op |-> "extract", df |-> df, period |-> cfg.cycle_period,
                out |-> CyclicalPatternExtractor_extract(df, cfg.cycle_period)]
    /\ prev' = last
    /\ budget' = budget - 1
    /\ UNCHANGED <<hashSalt, df, cfg, agenda, heap, managers, evOut, model>>

-----------------------------------------------------------------------------
(* Inputs.                                                                 *)

\* an hourly series of five observations from 2024-01-01 00:00 on
HourlyTimes == <<0, 1, 2, 3, 4>>

\* its values: flat, trending and zigzag histories, some with missing values
HourlyValues ==
    {<<Num(a), b, Num(c), d, Num(e)>> :
        a \in {0, 1}, b \in {Num(0), Num(1), NaN}, c \in {0, 2}, d \in {Num(1), NaN},
        e \in {0, 1}}

HourlyFrames == {Frame(HourlyTimes, v, TRUE, TRUE) : v \in HourlyValues}

\* events on the hourly series: start, end (hours)
HourlyWindows == {<<3, 4>>, <<4, 5>>, <<5, 7>>}

Events(windows, names) ==
    {EventOf(Naive(w[1]), Naive(w[2]), name) : w \in windows, name \in names}

Idle ==
    /\ last = NoCall
    /\ prev = NoCall
    /\ heap = <<>>
    /\ managers = <<>>
    /\ evOut = Answer("none", FALSE, <<>>)
    /\ model = NoModel

\* single generate calls under every combination of bounds and noise
InitBounds ==
    /\ hashSalt \in Salts
    /\ df \in HourlyFrames
    /\ cfg \in {Config(1, "auto", 0, lo, hi, nf) :
                  lo \in {None, Some(Num(1))}, hi \in {None, Some(Num(2))},
                  nf \in {Zero, Rat(1, 2)}}
    /\ agenda = Events(HourlyWindows, {"", "a"})
    /\ budget = 1
    /\ Idle

SpecBounds == InitBounds /\ [][Generate]_vars


\* histories without missing values: the fit has noise to add
CleanFrames == {f \in HourlyFrames : ~HasNaN(f.v)}

\* the same call made twice, in one process or in two
InitRuns ==
    /\ hashSalt \in Salts
    /\ df \in CleanFrames
    /\ cfg \in {Config(1, "auto", 0, None, None, nf) : nf \in {Zero, Rat(1, 2)}}
    /\ agenda = Events({<<4, 5>>, <<5, 7>>}, {"a", "b"})
    /\ budget = 2
    /\ Idle

SpecRuns == InitRuns /\ [][Generate \/ Restart]_vars

\* two calls with the series changing in between
InitLeak ==
    /\ hashSalt \in Salts
    /\ df \in {f \in HourlyFrames : f.v[1] = Zero /\ f.v[5] = Zero}
    /\ cfg \in {Config(1, "auto", 0, None, None, nf) : nf \in {Zero, Rat(1, 2)}}
    /\ agenda = Events({<<3, 4>>, <<4, 6>>}, {"a"})
    /\ budget = 2
    /\ Idle

SpecLeak == InitLeak /\ [][Generate \/ Revise \/ AppendRow \/ DropRow]_vars

\* series for batches: a zigzag and a flat history, one whose first three values
\* are missing, one with a missing value in the middle, one that is not
\* time-indexed and one without the target column
BatchFrames ==
    {Frame(HourlyTimes, <<Num(0), Num(1), Num(0), Num(2), Num(1)>>, TRUE, TRUE),
     Frame(HourlyTimes, <<Num(1), Num(1), Num(1), Num(1), Num(1)>>, TRUE, TRUE),
     Frame(HourlyTimes, <<NaN, NaN, NaN, Num(1), Num(2)>>, TRUE, TRUE),
     Frame(HourlyTimes, <<Num(0), Num(1), NaN, Num(2), Num(1)>>, TRUE, TRUE),
     Frame(HourlyTimes, <<Num(0), Num(1), Num(0), Num(2), Num(1)>>, FALSE, TRUE),
     Frame(HourlyTimes, <<Num(0), Num(1), Num(0), Num(2), Num(1)>>, TRUE, FALSE)}

\* a weekly series (Mondays 2024-01-01, -08, -15)
WeeklyFrame == Frame(<<0, 168, 336>>, <<Num(1), Num(2), Num(1)>>, TRUE, TRUE)

\* events on the weekly series: from a Monday, from a Tuesday, and one that
\* leaves two observations before it
WeeklyWindows == {<<504, 505>>, <<337, 338>>, <<336, 340>>}

\* the configurations of a batch: AR orders 0 (invalid), 1 and 2, the granularity
\* detected or set, "year" being none of the supported ones
BatchConfigs ==
    {Config(1, "auto", 0, None, None, Zero), Config(2, "auto", 0, None, None, Zero),
     Config(0, "auto", 0, None, None, Zero), Config(1, "year", 0, None, None, Zero),
     Config(1, "day", 0, None, None, Rat(1, 2))}

\* the events of a batch on the hourly series; with order 2 those whose design
\* matrix np_linalg_lstsq is modelled for
BatchWindows(g) ==
    IF g.ar_order = 2 THEN {<<2, 3>>, <<3, 4>>, <<4, 5>>}
    ELSE {<<2, 3>>, <<3, 4>>, <<4, 5>>, <<5, 7>>}

\* one generate_multiple call
InitBatch ==
    /\ hashSalt = 0
    /\ cfg \in BatchConfigs
    /\ \/ /\ df \in BatchFrames
          /\ agenda = Events(BatchWindows(cfg), {"a", "b"}) \ Events({<<2, 3>>, <<4, 5>>}, {"b"})
       \/ /\ df = WeeklyFrame
          /\ cfg.ar_order = 1
          /\ agenda = Events(WeeklyWindows, {"a", "b"})
    /\ budget = 1
    /\ Idle

SpecBatch == InitBatch /\ [][GenerateMultiple]_vars

\* series of every spacing: hourly, two-hourly, daily, weekly on Mondays
\* (2024-01-01, -08, -15), weekly on Sundays (2024-01-07, -14, -21), irregular,
\* and one of two observations; each with the event windows asked on it and the
\* forecast_days configured.  Every window spans, forecast_days included, a
\* whole number of steps of the series, so that a grid from event_start to the
\* end of the forecast exists
GridSeries ==
    {<<HourlyTimes, {<<5, 7>>, <<3, 5>>, <<5, 6>>}, {0, 1}>>,
     <<<<0, 2, 4, 6>>, {<<8, 12>>, <<8, 10>>, <<7, 9>>}, {0, 1}>>,
     <<<<0, 24, 48, 72>>, {<<96, 144>>, <<96, 120>>, <<84, 108>>}, {0, 1}>>,
     <<<<0, 168, 336>>, {<<504, 672>>, <<505, 673>>, <<528, 696>>}, {0, 7}>>,
     <<<<144, 312, 480>>, {<<648, 816>>, <<504, 672>>}, {0, 7}>>,
     <<<<0, 1, 3, 4>>, {<<5, 7>>, <<6, 7>>}, {0, 1}>>,
     <<<<0, 1>>, {<<2, 3>>}, {0, 1}>>}

\* single generate calls on them
InitGrid ==
    /\ hashSalt \in Salts
    /\ \E sr \in GridSeries :
          /\ df \in {Frame(sr[1], [i \in 1..Len(sr[1]) |-> Num(1)], TRUE, TRUE),
                     Frame(sr[1], [i \in 1..Len(sr[1]) |-> Num(i % 2)], TRUE, TRUE)}
          /\ agenda = Events(sr[2], {"a"})
          /\ cfg \in {Config(1, "auto", fd, None, None, Zero) : fd \in sr[3]}
    /\ budget = 1
    /\ Idle

SpecGrid == InitGrid /\ [][Generate]_vars

\* a caller building events and managers and querying them
InitEvents ==
    /\ hashSalt = 0
    /\ df = Frame(HourlyTimes, [i \in 1..5 |-> Num(1)], TRUE, TRUE)
    /\ cfg = Config(1, "auto", 0, None, None, Zero)
    /\ agenda = {}
    /\ budget = 0
    /\ Idle

SpecEvents ==
    InitEvents /\ [][NewEvent \/ FromDict \/ NewManager \/ Duration \/ Contains \/ Overlaps
                     \/ ToDict \/ FindOverlapping \/ FilterByDateRange \/ GetEventByName
                     \/ ToList]_vars

\* the longest array handed to fit
MaxFitLen == 4

\* the arrays handed to fit, as the target column of a frame indexed hourly
FitFrames ==
    {Frame([i \in 1..Len(v) |-> i - 1], v, TRUE, TRUE) :
        v \in UNION {[1..n -> Values] : n \in 0..MaxFitLen}}

\* the fits whose design matrix np_linalg_lstsq is modelled for: one lag, or
\* fewer rows than columns
FitModelled(y, order) == order = 1 \/ Len(y) - order < order + 1

\* single fit calls
InitFit ==
    /\ hashSalt = 0
    /\ cfg \in {Config(order, "auto", 0, None, None, Zero) : order \in {1, 2}}
    /\ df \in {f \in FitFrames : FitModelled(f.v, cfg.ar_order)}
    /\ agenda = {}
    /\ budget = 1
    /\ Idle

SpecFit == InitFit /\ [][Fit]_vars

\* frames for pattern extraction: four observations within one day and the next,
\* across two weeks, and across the end of January; any may be missing; and one
\* frame without a time index, one without the target column
PatternFrames ==
    {Frame(t, v, TRUE, TRUE) :
        t \in {<<0, 1, 2, 24>>, <<0, 24, 168, 192>>, <<696, 720, 744, 768>>},
        v \in [1..4 -> {Num(0), Num(2), NaN}]}
    \cup {Frame(<<0, 1, 2, 24>>, [i \in 1..4 |-> Num(i)], FALSE, TRUE),
          Frame(<<0, 1, 2, 24>>, [i \in 1..4 |-> Num(i)], TRUE, FALSE)}

\* single extract calls at every granularity, and at one that is not supported
InitPattern ==
    /\ hashSalt = 0
    /\ cfg \in {Config(1, period, 0, None, None, Zero) : period \in SupportedPeriods \cup {"year"}}
    /\ df \in PatternFrames
    /\ agenda = {}
    /\ budget = 1
    /\ Idle

SpecPattern == InitPattern /\ [][Extract]_vars

\* series for the checks generate makes first: a zigzag history, an entirely
\* missing target, a target missing at the start, two observations only, a
\* frame that is not time-indexed and one without the target column
WindowFrames ==
    {Frame(HourlyTimes, <<Num(0), Num(1), Num(0), Num(2), Num(1)>>, TRUE, TRUE),
     Frame(HourlyTimes, <<NaN, NaN, NaN, NaN, NaN>>, TRUE, TRUE),
     Frame(HourlyTimes, <<NaN, NaN, NaN, Num(1), Num(2)>>, TRUE, TRUE),
     Frame(<<0, 1>>, <<Num(1), Num(2)>>, TRUE, TRUE),
     Frame(HourlyTimes, <<Num(0), Num(1), Num(0), Num(2), Num(1)>>, FALSE, TRUE),
     Frame(HourlyTimes, <<Num(0), Num(1), Num(0), Num(2), Num(1)>>, TRUE, FALSE)}

\* event windows of one hour, of no length and reversed, from every hour of the
\* series on; and windows whose boundaries carry time zones
WindowEvents ==
    Events({<<st, en>> : st \in {1, 2, 3, 4, 5}, en \in 0..6} \ {<<st, en>> \in (1..5) \X (0..6) :
                en < st - 1 \/ en > st + 1}, {"a"})
    \cup {EventOf(Stamp(5, "UTC"), Naive(5), "a"),
          EventOf(Stamp(4, "UTC"), Stamp(5, "EST"), "a"),
          EventOf(Naive(5), Stamp(4, "UTC"), "a")}

\* single generate calls with AR orders 1 and 3
InitWindow ==
    /\ hashSalt = 0
    /\ cfg \in {Config(order, "auto", 0, None, None, Zero) : order \in {1, 3}}
    /\ df \in WindowFrames
    /\ agenda = WindowEvents
    /\ budget = 1
    /\ Idle

SpecWindow == InitWindow /\ [][Generate]_vars

\* two calls in a row on one generator with noise: generate or generate_multiple,
\* for an event that fails (two pre-event observations) and one that succeeds,
\* on a series with a missing value
InitPure ==
    /\ hashSalt \in Salts
    /\ cfg = Config(1, "auto", 0, None, None, Rat(1, 2))
    /\ df \in {Frame(HourlyTimes, <<Num(0), Num(1), NaN, Num(2), Num(1)>>, TRUE, TRUE),
               Frame(HourlyTimes, <<Num(0), Num(1), Num(0), Num(2), Num(1)>>, TRUE, TRUE)}
    /\ agenda = Events({<<2, 3>>, <<4, 5>>}, {"a"})
    /\ budget = 2
    /\ Idle

SpecPure == InitPure /\ [][Generate \/ GenerateMultiple]_vars

\* a batch and the same batch in another order, with noise: events with
\* overlapping windows, one that fails, and two that share a name
InitOrder ==
    /\ hashSalt \in Salts
    /\ cfg = Config(1, "day", 0, None, None, Rat(1, 2))
    /\ df \in {Frame(HourlyTimes, <<Num(0), Num(1), NaN, Num(2), Num(1)>>, TRUE, TRUE),
               Frame(HourlyTimes, <<Num(0), Num(1), Num(0), Num(2), Num(1)>>, TRUE, TRUE)}
    /\ agenda = {EventOf(Naive(3), Naive(4), "a"), EventOf(Naive(4), Naive(5), "b"),
                 EventOf(Naive(2), Naive(3), "c"), EventOf(Naive(5), Naive(7), "a")}
    /\ budget = 1
    /\ Idle

SpecOrder == InitOrder /\ [][GenerateMultiple \/ GenerateMultipleReordered]_vars

\* a fit of an order-1 model on a constant history or on a zigzag one, then a
\* forecast on that model
InitForecast ==
    /\ hashSalt = 0
    /\ cfg = Config(1, "auto", 0, None, None, Zero)
    /\ df \in {Frame(<<0, 1, 2>>, <<Num(1), Num(1), Num(1)>>, TRUE, TRUE),
               Frame(<<0, 1, 2, 3>>, <<Num(0), Num(1), Num(0), Num(2)>>, TRUE, TRUE)}
    /\ agenda = {}
    /\ budget = 2
    /\ Idle

SpecForecast == InitForecast /\ [][Fit \/ Forecast]_vars

\* a fit, a second fit on the same model, then a forecast on it
SpecRefit == InitForecast /\ [][Fit \/ Refit \/ Forecast]_vars

\* four series without a repeated pair of neighbours, observed at SeasonTimes,
\* for models of order 1 and 2: a fit and a forecast on the fitted model, or
\* generate calls for events after the last observation
AlignSeries ==
    {<<Num(0), Num(1), Num(0), Num(2)>>, <<Num(1), Num(2), Num(0), Num(1)>>,
     <<Num(2), Num(0), Num(1), Num(2)>>, <<Num(0), Num(2), Num(1), Num(0)>>}

InitAlign ==
    /\ hashSalt = 0
    /\ cfg \in {Config(order, "day", 0, None, None, Zero) : order \in {1, 2}}
    /\ df \in {Frame(<<0, 84, 168, 252>>, v, TRUE, TRUE) : v \in AlignSeries}
    /\ agenda = Events({<<336, 504>>, <<420, 600>>}, {"a"})
    /\ budget = 2
    /\ Idle

SpecAlign == InitAlign /\ [][Fit \/ Forecast \/ Generate]_vars

\* a series observed every 84 hours (Monday 00:00, Thursday 12:00, Monday,
\* Thursday) with the day-of-week pattern, orders 1 and 2, noise off and on, and
\* events of three forecast steps that fall on observed days of the week
SeasonTimes == <<0, 84, 168, 252>>

InitSeason ==
    /\ hashSalt = 0
    /\ cfg \in {Config(order, "day", 0, None, None, nf) :
                    order \in {1, 2}, nf \in {Zero, Rat(1, 2)}}
    /\ df \in {Frame(SeasonTimes, v, TRUE, TRUE) : v \in [1..4 -> {Num(0), Num(1), Num(2)}]}
    /\ agenda = Events({<<336, 504>>, <<420, 600>>}, {"a"})
    /\ budget = 1
    /\ Idle

SpecSeason == InitSeason /\ [][Generate]_vars

\* series with uneven gaps (median gap one hour, two hours, one day) and one with
\* even gaps, each with events of two and three hours after its last observation
GapSeries ==
    {<<<<0, 1, 3, 4>>, {<<5, 7>>, <<6, 9>>}>>,
     <<<<0, 2, 4, 8>>, {<<9, 11>>, <<10, 13>>}>>,
     <<<<0, 24, 48, 96>>, {<<97, 99>>, <<120, 123>>}>>,
     <<<<0, 24, 48, 72>>, {<<96, 144>>, <<73, 121>>}>>}

InitGaps ==
    /\ hashSalt = 0
    /\ cfg = Config(1, "auto", 0, None, None, Zero)
    /\ \E sr \in GapSeries :
          /\ df \in {Frame(sr[1], v, TRUE, TRUE) : v \in [1..4 -> {Num(0), Num(1)}]}
          /\ agenda = Events(sr[2], {"a"})
    /\ budget = 1
    /\ Idle

SpecGaps == InitGaps /\ [][Generate]_vars

\* series with gaps at and around six hours, three days and two weeks, even and
\* uneven, of one to four observations
CycleTimes ==
    {<<0, g, 2 * g>> : g \in {1, 5, 6, 7, 71, 72, 73, 335, 336, 337}}
    \cup {<<0, 6, 13>>, <<0, 6, 12, 19>>, <<0, 72, 145>>, <<0, 1, 73, 74, 410>>,
          <<0, 336, 673>>, <<0, 5>>, <<0>>}

\* the granularity configured, left to detection, or left open with detection off
CycleConfigs ==
    {Config(1, p, 0, None, None, Zero) : p \in SupportedPeriods \cup {"year", "auto"}}
    \cup {[Config(1, "auto", 0, None, None, Zero) EXCEPT !.auto_detect = FALSE]}

InitCycle ==
    /\ hashSalt = 0
    /\ cfg \in CycleConfigs
    /\ df \in {Frame(t, [i \in 1..Len(t) |-> Num(i % 2)], TRUE, TRUE) : t \in CycleTimes}
    /\ agenda = Events({<<1, 2>>, <<700, 701>>}, {"a"})
    /\ budget = 1
    /\ Idle

SpecCycle == InitCycle /\ [][DetectCycle]_vars

-----------------------------------------------------------------------------
(* The claims.                                                             *)

\* the event boundaries of the most recent generate call, as generate reads them
StartOf(call) == normalize_timezone(call.events[1].start).wall

EndOf(call) == normalize_timezone(call.events[1].end).wall

\* the timestamps of frame d strictly before s
PreEventTimes(d, s) == SelectSeq(d.t, LAMBDA t : t < s)

\* C1 (as stated): for every generate call that returns, the timestamp column is
\* the evenly spaced grid at the inferred frequency f: its first element is
\* event_start, its last element is event_end + forecast_days, consecutive
\* elements differ by exactly f, and none lies outside
\* [event_start, event_end + forecast_days].
C1_GridTimeline ==
    (last.op = "generate" /\ last.out.ok) =>
        LET index == last.out.index
            start == StartOf(last)
            end   == EndOf(last) + cfg.forecast_days * HoursPerDay
            f     == FreqStep(infer_frequency(PreEventTimes(last.df, start)))
        IN  /\ index[1] = start
            /\ Last(index) = end
            /\ \A i \in 1..(Len(index) - 1) : index[i + 1] - index[i] = f
            /\ \A i \in 1..Len(index) : start <= index[i] /\ index[i] <= end

\* C3 (as stated): after every successful generate call, every forecast value v
\* satisfies min_value <= v when min_value is set and v <= max_value when
\* max_value is set.
C3_BoundsInvariant ==
    (last.op = "generate" /\ last.out.ok) =>
        \A i \in 1..Len(last.out.values) :
            /\ cfg.min_value.set => Le(cfg.min_value.v, last.out.values[i])
            /\ cfg.max_value.set => Le(last.out.values[i], cfg.max_value.v)


\* the two most recent calls are generate calls for the same event
SameEventTwice ==
    /\ prev.op = "generate"
    /\ last.op = "generate"
    /\ prev.events = last.events

\* C2 (as stated): two generate calls given identical series, configuration, event
\* boundaries and event name return identical forecast values, noise included,
\* for every event name and also across separate runs of the program.
C2_Deterministic ==
    (SameEventTwice /\ prev.df = last.df) => prev.out = last.out

\* the observations of frame d strictly before s, with the frame's structure
PreEventPart(d, s) ==
    [rows |-> {<<d.t[i], d.v[i]>> : i \in {i \in 1..Len(d.t) : d.t[i] < s}},
     datetime_index |-> d.datetime_index, has_target |-> d.has_target]

\* C9: two generate calls for the same event and configuration, in the same
\* process and with the same draw of entropy, on two series that agree on every
\* observation strictly before event_start, return the same outcome, however the
\* series differ at or after event_start.
C9_NoLeakage ==
    (/\ SameEventTwice
     /\ prev.env = last.env
     /\ PreEventPart(prev.df, StartOf(last)) = PreEventPart(last.df, StartOf(last)))
        => prev.out = last.out

\* C9's case: a forecast was returned twice, and between the two calls the
\* observation exactly at event_start changed
C9_Witness ==
    /\ SameEventTwice
    /\ prev.env = last.env
    /\ last.out.ok
    /\ ~HasNaN(last.out.values)
    /\ PreEventPart(prev.df, StartOf(last)) = PreEventPart(last.df, StartOf(last))
    /\ \E i \in 1..Len(last.df.t) :
          /\ last.df.t[i] = StartOf(last)
          /\ prev.df.v[i] # last.df.v[i]

\* the most recent call is a generate_multiple call
IsBatch == last.op = "generate_multiple"

\* the events of the batch whose generate call returned a forecast
Survivors == {k \in 1..Len(last.out.calls) : last.out.calls[k].ok}

\* C4: generate_multiple calls generate for every event of the list, whatever
\* the events before it did, and a result holds the value columns of exactly the
\* events whose generate call succeeded.
C4_FailureIsolation ==
    IsBatch =>
        /\ Len(last.out.calls) = Len(last.events)
        /\ last.out.ok =>
              SeqToSet(last.out.columns) = {last.events[k].name : k \in Survivors}

\* C4's case: a batch of three events with distinct outcomes where the first
\* and the last succeed and the middle one fails, or the other way round
C4_Witness ==
    /\ IsBatch
    /\ last.out.ok
    /\ Len(last.events) = 3
    /\ \/ Survivors = {1, 3} /\ last.events[1].name # last.events[3].name
       \/ Survivors = {2}
    /\ Len(last.out.columns) = Cardinality(Survivors)

\* C5: generate_multiple raises NoEventsProcessed exactly when no event of the
\* list yields a forecast (all failed, or the list is empty), and returns a
\* table whenever at least one does.
C5_NoEventsProcessed ==
    IsBatch =>
        /\ (~last.out.ok /\ last.out.kind = "NoEventsProcessed") <=> (Survivors = {})
        /\ (Survivors # {}) => last.out.ok
        /\ Len(last.out.calls) = Len(last.events)

\* C5's case: a batch of three events that all fail, for more than one reason,
\* and the batch raises NoEventsProcessed
C5_Witness ==
    /\ IsBatch
    /\ Len(last.events) = 3
    /\ Survivors = {}
    /\ last.out.kind = "NoEventsProcessed"
    /\ last.out.calls[1].kind # last.out.calls[2].kind

\* C6 (as stated): of generate's failures, generate_multiple skips the four
\* listed errors and goes on; any other failure ends the batch and reaches the
\* caller as the error it is.
C6_ExactlyFourSkipped ==
    IsBatch =>
        \A k \in 1..Len(last.out.calls) :
            ~last.out.calls[k].ok =>
                IF last.out.calls[k].kind \in ListedErrors
                THEN k \in DOMAIN last.out.warnings
                ELSE /\ ~last.out.ok
                     /\ last.out.kind = last.out.calls[k].kind
                     /\ k = Len(last.out.calls)

\* C7: the timestamp column of generate_multiple's result is strictly
\* increasing and holds exactly the timestamps of the surviving events'
\* forecast timelines.
C7_MergeTimeline ==
    (IsBatch /\ last.out.ok) =>
        /\ \A r \in 1..(Len(last.out.index) - 1) : last.out.index[r] < last.out.index[r + 1]
        /\ SeqToSet(last.out.index) =
              UNION {SeqToSet(last.out.calls[k].index) : k \in Survivors}

\* C7's case: two surviving events whose timelines share a timestamp, each with
\* a timestamp the other lacks, the later timeline listed first
C7_Witness ==
    /\ IsBatch
    /\ last.out.ok
    /\ \E k1 \in Survivors, k2 \in Survivors :
          LET t1 == SeqToSet(last.out.calls[k1].index)
              t2 == SeqToSet(last.out.calls[k2].index)
          IN  /\ k1 < k2
              /\ t1 \cap t2 # {}
              /\ t1 \ t2 # {}
              /\ t2 \ t1 # {}
              /\ last.out.calls[k1].index[1] > last.out.calls[k2].index[1]

\* the event columns with a value at row r of the result
Filled(r) == {c \in SeqToSet(last.out.columns) : ~IsNaN(last.out.cells[c][r])}

\* C8 (as stated): in generate_multiple's result the column of a surviving event
\* is non-missing exactly at the rows of that event's own forecast timeline; so
\* for two surviving events with disjoint timelines the row count is the sum of
\* the two lengths and every row has exactly one non-missing value, in the
\* column of the event covering it.
C8_MergeCells ==
    (IsBatch /\ last.out.ok) =>
        /\ \A k \in Survivors : \A r \in 1..Len(last.out.index) :
              ~IsNaN(last.out.cells[last.out.calls[k].column][r])
                 <=> last.out.index[r] \in SeqToSet(last.out.calls[k].index)
        /\ \A k1 \in Survivors, k2 \in Survivors :
              (/\ Survivors = {k1, k2}
               /\ k1 # k2
               /\ SeqToSet(last.out.calls[k1].index) \cap SeqToSet(last.out.calls[k2].index) = {})
                 => /\ Len(last.out.index) =
                          Len(last.out.calls[k1].index) + Len(last.out.calls[k2].index)
                    /\ \A r \in 1..Len(last.out.index) :
                          \E k \in {k1, k2} :
                             /\ last.out.index[r] \in SeqToSet(last.out.calls[k].index)
                             /\ Filled(r) = {last.out.calls[k].column}

\* an Event object satisfies the invariant
EventValid(ev) == ev.start.tz = NoTz /\ ev.end.tz = NoTz /\ ts_lt(ev.start, ev.end)

\* no Event object that exists changes
EventsKept == \A i \in 1..Len(heap) : i <= Len(heap') /\ heap'[i] = heap[i]

\* a constructor call whose start is not before its end raises
OrderEnforced ==
    (evOut.op = "Event" /\ ~evOut.raised) =>
        normalize_timezone(evOut.value[1]).wall < normalize_timezone(evOut.value[2]).wall

\* C10 (as stated): every Event satisfies start < end with timezone-naive start
\* and end at all times; constructing an Event with start >= end fails; no
\* operation changes an Event once it exists.
C10_EventInvariant ==
    /\ [](\A i \in 1..Len(heap) : EventValid(heap[i]))
    /\ []OrderEnforced
    /\ [][EventsKept]_vars

\* the most recent call is a fit call on an array long enough for the order
Fitted == last.op = "fit" /\ Len(last.y) >= last.order + 1

\* all values of the array are the same number
Constant(y) == ~HasNaN(y) /\ \A i \in 1..Len(y) : y[i] = y[1]

\* C11: fit on at least order + 1 equal values does not raise and returns phi =
\* zeros of length order, c = the constant value (the mean of the window) and
\* residual_std = 0.
C11_ConstantSeries ==
    (Fitted /\ Constant(last.y)) =>
        /\ ~last.out.raised
        /\ last.out.phi = Zeros(last.order)
        /\ last.out.c = last.y[1]
        /\ last.out.c = np_mean(last.y)
        /\ last.out.residual_std = Zero

\* C11's case: an order-2 fit on four equal non-zero values
C11_Witness ==
    /\ Fitted
    /\ Constant(last.y)
    /\ last.order = 2
    /\ Len(last.y) = 4
    /\ last.y[1] # Zero
    /\ last.out.phi = <<Zero, Zero>>

\* the full domain of each granularity
FullDomain(period) ==
    CASE period = "hour"        -> 0..23
      [] period = "day"         -> 0..6
      [] period = "week"        -> 1..53
      [] period = "month"       -> 1..12
      [] period = "day_of_year" -> 1..366
      [] period = "quarter"     -> 1..4

\* the rows of frame d that fall into period p
RowsIn(d, period, p) == {i \in 1..Len(d.t) : period_func(period, d.t[i]) = p}

\* the mean of the non-missing values of the rows I of frame d, NaN when none
MeanOver(d, I) ==
    LET J == {i \in I : ~IsNaN(d.v[i])}
        RECURSIVE Sum(_)
        Sum(K) == IF K = {} THEN Zero
                  ELSE LET k == CHOOSE k \in K : TRUE IN Add(d.v[k], Sum(K \ {k}))
    IN  Div(Sum(J), Num(Cardinality(J)))

\* C12: for each of the six granularities, the pattern extract returns has
\* exactly the granularity's full domain as its key set; the entry of a period
\* the data covers is that period's mean minus the overall mean, the entry of a
\* period the data does not cover is 0.0.
C12_PatternComplete ==
    (last.op = "extract" /\ ~last.out.raised) =>
        /\ last.period \in SupportedPeriods
        /\ DOMAIN last.out.pattern = FullDomain(last.period)
        /\ \A p \in FullDomain(last.period) :
              last.out.pattern[p] =
                 IF RowsIn(last.df, last.period, p) = {} THEN Zero
                 ELSE Sub(MeanOver(last.df, RowsIn(last.df, last.period, p)),
                          MeanOver(last.df, 1..Len(last.df.t)))

\* C12's case: an hourly pattern from data covering three hours of the day, with
\* a non-zero deviation
C12_Witness ==
    /\ last.op = "extract"
    /\ ~last.out.raised
    /\ last.period = "hour"
    /\ Cardinality({p \in 0..23 : RowsIn(last.df, "hour", p) # {}}) = 3
    /\ \E p \in 0..23 : ~IsNaN(last.out.pattern[p]) /\ last.out.pattern[p] # Zero
    /\ last.out.pattern[23] = Zero

\* the most recent call is a generate call; its event
IsGenerate == last.op = "generate"

EventOfCall == last.events[1]

\* the normalized boundaries of the call's event are not in order
WindowInvalid ==
    normalize_timezone(EventOfCall.start).wall >= normalize_timezone(EventOfCall.end).wall

\* C13: generate with normalized event_start >= event_end fails with
\* InvalidEventWindow and returns no forecast, whatever the series holds: too
\* little history, an all-missing target, no target column, no time index.
C13_WindowCheckedFirst ==
    (IsGenerate /\ WindowInvalid) =>
        /\ ~last.out.ok
        /\ last.out.kind = "InvalidEventWindow"
        /\ last.out.index = <<>>
        /\ last.out.values = <<>>

\* C13's case: an empty window whose boundaries differ in time zone only, on a
\* frame without the target column
C13_Witness ==
    /\ IsGenerate
    /\ EventOfCall.start.tz # EventOfCall.end.tz
    /\ EventOfCall.start.wall = EventOfCall.end.wall
    /\ ~last.df.has_target
    /\ last.out.kind = "InvalidEventWindow"

\* the target values of the observations strictly before the call's event_start
PreEventTarget ==
    LET d == last.df
    IN  SelectSeq([i \in 1..Len(d.t) |-> IF d.t[i] < StartOf(last) THEN d.v[i] ELSE <<1, 0>>],
                  LAMBDA x : x # <<1, 0>>)

TooShort == Len(PreEventTarget) < cfg.ar_order + 1

AllMissing == \A i \in 1..Len(PreEventTarget) : IsNaN(PreEventTarget[i])

\* the failures of generate that come from what the pre-event window holds
DataAvailabilityErrors == {"InsufficientHistory", "AllMissingTarget", "FrequencyInference"}

\* C14 (as stated): for a valid event window on a time-indexed series with the
\* target column, generate fails for lack of data, returning no forecast,
\* exactly when the pre-event window is unusable: with InsufficientHistory when
\* fewer than ar_order + 1 observations lie strictly before event_start, else
\* with AllMissingTarget when every pre-event target value is missing.
C14_DataAvailability ==
    (IsGenerate /\ ~WindowInvalid /\ last.df.datetime_index /\ last.df.has_target) =>
        /\ TooShort => (~last.out.ok /\ last.out.kind = "InsufficientHistory")
        /\ (~TooShort /\ AllMissing) => (~last.out.ok /\ last.out.kind = "AllMissingTarget")
        /\ (~TooShort /\ ~AllMissing) =>
              ~(~last.out.ok /\ last.out.kind \in DataAvailabilityErrors)

\* the generate call just made returned what generate returns for its event on
\* the frame as it was before the call that preceded it
AsOnFirstCall ==
    (IsGenerate /\ prev.op # "none") =>
        \E svd_fails \in SvdOutcomes(prev.df) :
            last.out = generate(prev.df, cfg, EventOfCall.start, EventOfCall.end,
                                EventOfCall.name,
                                [salt |-> last.env.salt, entropy |-> last.env.entropy,
                                 svd_fails |-> svd_fails])

FilledRows(c) == {r \in 1..Len(last.out.index) : ~IsNaN(last.out.cells[c][r])}

DistinctNames(events) ==
    \A i, j \in 1..Len(events) : events[i].name = events[j].name => i = j

\* generate for the k-th event of the batch alone, in the batch's process
Alone(k, svd_fails) ==
    generate(last.df, cfg, last.events[k].start, last.events[k].end, last.events[k].name,
             [salt |-> last.env.salt, entropy |-> last.env.entropy + k - 1,
              svd_fails |-> svd_fails])

\* the column of forecast frame o in the batch's result holds o's values on
\* o's timestamps and is missing elsewhere
ColumnIs(o) ==
    /\ o.ok
    /\ o.column \in SeqToSet(last.out.columns)
    /\ SeqToSet(o.index) \subseteq SeqToSet(last.out.index)
    /\ \A r \in 1..Len(last.out.index) :
          last.out.cells[o.column][r] = CellAt(o, last.out.index[r])

\* the batch just made repeats the one before it with the events in another order
Reordered ==
    /\ IsBatch
    /\ prev.op = "generate_multiple"
    /\ Len(prev.events) = Len(last.events)
    /\ \E f \in Orders(Len(last.events)) :
          last.events = [k \in 1..Len(last.events) |-> prev.events[f[k]]]

\* C16: in a generate_multiple result for events with distinct names, every
\* surviving event's column holds the values generate returns for that event
\* alone; and the same events in another order give the same rows and the same
\* values in every event's column.
C16_EventIndependence ==
    /\ (IsBatch /\ last.out.ok /\ DistinctNames(last.events)) =>
          \E svd_fails \in SvdOutcomes(last.df) :
             \A k \in Survivors : ColumnIs(Alone(k, svd_fails))
    /\ (Reordered /\ DistinctNames(last.events)) =>
          /\ last.out.ok = prev.out.ok
          /\ last.out.ok =>
                /\ last.out.index = prev.out.index
                /\ SeqToSet(last.out.columns) = SeqToSet(prev.out.columns)
                /\ \A c \in SeqToSet(last.out.columns) :
                      last.out.cells[c] = prev.out.cells[c]

\* C16's case: three events with distinct names, two surviving with noisy
\* forecasts on overlapping windows and one skipped, repeated in an order that
\* moves the first event
C16_Witness ==
    /\ Reordered
    /\ DistinctNames(last.events)
    /\ Len(last.events) = 3
    /\ last.out.ok
    /\ Cardinality(Survivors) = 2
    /\ last.events[1] # prev.events[1]
    /\ last.out.columns # prev.out.columns
    /\ \A c \in SeqToSet(last.out.columns) : Cardinality(FilledRows(c)) >= 2

\* C17: fit raises exactly when it is given fewer than order + 1 values; given
\* exactly order + 1 values it returns phi of length order, c, residual_std and
\* one residual (len(values) - order of them).
C17_FitThreshold ==
    last.op = "fit" =>
        /\ last.out.raised <=> Len(last.y) < last.order + 1
        /\ Len(last.y) = last.order + 1 =>
              /\ ~last.out.raised
              /\ Len(last.out.phi) = last.order
              /\ Len(last.out.residuals) = Len(last.y) - last.order
              /\ Len(last.out.residuals) = 1

\* C17's case: an order-2 fit on exactly three values, the first of them missing
\* so that the fit goes through the least-squares solve
C17_Witness ==
    /\ last.op = "fit"
    /\ last.order = 2
    /\ Len(last.y) = 3
    /\ IsNaN(last.y[1])
    /\ ~last.out.raised
    /\ Len(last.out.phi) = 2

\* the fit reached the least-squares solve and the solve raised LinAlgError
\* (nothing stored) or returned a non-finite coefficient
SolveBroke ==
    /\ Fitted
    /\ ~StdBelowEps(Slice(last.y, 1, Len(last.y) - last.order))
    /\ \/ ~last.out.stored
       \/ HasNaN(np_linalg_lstsq(build_design_matrix(last.y, last.order),
                                 Slice(last.y, last.order + 1, Len(last.y))))

\* C18: when the least-squares solve fails or yields a non-finite coefficient,
\* fit does not raise and returns phi all zeros, c = the mean of the target
\* window and residual_std = 0.
C18_DegenerateOnFailure ==
    SolveBroke =>
        /\ ~last.out.raised
        /\ last.out.phi = Zeros(last.order)
        /\ last.out.c = np_mean(Slice(last.y, last.order + 1, Len(last.y)))
        /\ last.out.residual_std = Zero

IsForecast == last.op = "forecast"

\* the rolling state before step i of the forecast call just made
StateBefore(i) == IF i = 1 THEN last.last_values ELSE last.out.states[i - 1]

\* C19: forecast on a seed array at least as long as phi returns horizon values;
\* step i's value is c + dot(phi, the last len(phi) values of the state) plus the
\* step's noise draw when noise is on; the state after the step is the state
\* before it without its oldest value and with the step's value appended, of the
\* seed array's length; and the caller's seed array is as it was.
C19_ForecastSteps ==
    (IsForecast /\ Len(last.last_values) >= Len(last.phi)) =>
        /\ ~last.out.raised
        /\ Len(last.out.forecast) = last.horizon
        /\ last.out.last_values = last.last_values
        /\ \A i \in 1..last.horizon :
              /\ last.out.forecast[i] =
                    Add(Add(last.c,
                            np_dot(last.phi,
                                   Slice(StateBefore(i),
                                         Len(StateBefore(i)) - Len(last.phi) + 1,
                                         Len(StateBefore(i))))),
                        forecast_noise(last.self, last.add_noise, last.noise_std,
                                       last.random_seed, last.entropy, i))
              /\ last.out.states[i] = Append(Tail(StateBefore(i)), last.out.forecast[i])
              /\ Len(last.out.states[i]) = Len(last.last_values)

\* the values c + dot(phi, state) + adjustment, step by step, from the state
\* seeded with seed: the state of step i is the last len(phi) values of seed
\* followed by the values of the steps before i
Projection(c, phi, adjustments, seed) ==
    LET p == Len(phi)
        value[i \in 1..Len(adjustments)] ==
            Add(Add(c, np_dot(phi, [k \in 1..p |->
                                      IF i - 1 + k <= p THEN seed[i - 1 + k]
                                      ELSE value[i - 1 + k - p]])),
                adjustments[i])
    IN  value

\* the seasonal adjustments of the timestamps of the generate call just made
AdjustmentsOfCall ==
    apply(cfg.cycle_period,
          extract(cfg.cycle_period, PreEventTimes(last.df, StartOf(last)), PreEventTarget),
          last.out.index)

\* the parameters fit returns on the pre-event target of the call just made
ParamsOfCall == ARModel_fit(PreEventTarget, cfg.ar_order, FALSE)

\* C20: the values a generate call returns are those of the recursion seeded with
\* the last ar_order pre-event values, each step's value being c + dot(phi, state)
\* + the seasonal adjustment of the step's timestamp and entering the state of
\* the next step as such; the noise is added to them after the recursion.
C20_SeasonalRecursion ==
    (IsGenerate /\ last.out.ok) =>
        last.out.values =
            add_noise(cfg,
                      Projection(ParamsOfCall.c, ParamsOfCall.phi, AdjustmentsOfCall,
                                 Slice(PreEventTarget,
                                       Len(PreEventTarget) - cfg.ar_order + 1,
                                       Len(PreEventTarget))),
                      ParamsOfCall.residual_std,
                      noise_seed(EventOfCall.name, last.env.salt), last.env.entropy)

\* C20's case: an order-2 forecast without noise of three steps, the first with a
\* non-zero seasonal adjustment, with both coefficients non-zero, so that the
\* bare base value in the state would give another second value
C20_Witness ==
    /\ IsGenerate
    /\ last.out.ok
    /\ cfg.ar_order = 2
    /\ cfg.noise_factor = Zero
    /\ Len(last.out.values) = 3
    /\ AdjustmentsOfCall[1] # Zero
    /\ ParamsOfCall.phi[1] # Zero
    /\ ParamsOfCall.phi[2] # Zero
    /\ last.out.values[2] #
          Add(Add(ParamsOfCall.c,
                  np_dot(ParamsOfCall.phi,
                         <<Last(PreEventTarget),
                           Sub(last.out.values[1], AdjustmentsOfCall[1])>>)),
              AdjustmentsOfCall[2])

\* the noise-free recursion of the generate call just made
NoiseFree ==
    Projection(ParamsOfCall.c, ParamsOfCall.phi, AdjustmentsOfCall,
               Slice(PreEventTarget, Len(PreEventTarget) - cfg.ar_order + 1,
                     Len(PreEventTarget)))

\* the i-th draw of the generator seeded from the event name of the call
DrawOfCall(i) == StdNormal(noise_seed(EventOfCall.name, last.env.salt), last.env.entropy, i)

NoiseOn == Lt(Zero, cfg.noise_factor) /\ Lt(Zero, ParamsOfCall.residual_std)

\* C21: a generate call adds noise exactly when residual_std > 0 and
\* noise_factor > 0, and then step i gets the i-th draw scaled by
\* residual_std * noise_factor; otherwise the forecast is the noise-free
\* recursion.
C21_NoiseRule ==
    (IsGenerate /\ last.out.ok) =>
        /\ Len(last.out.values) = Len(NoiseFree)
        /\ \A i \in 1..Len(NoiseFree) :
              last.out.values[i] =
                 IF NoiseOn
                 THEN Add(NoiseFree[i],
                          Mul(Mul(ParamsOfCall.residual_std, cfg.noise_factor), DrawOfCall(i)))
                 ELSE NoiseFree[i]

\* C21's case: a forecast of three steps with residual_std > 0 and noise_factor
\* > 0 whose draws differ from step to step and move every value
C21_Witness ==
    /\ IsGenerate
    /\ last.out.ok
    /\ NoiseOn
    /\ Len(last.out.values) = 3
    /\ \A i \in 1..3 : last.out.values[i] # NoiseFree[i]
    /\ DrawOfCall(1) # DrawOfCall(2)

\* the pre-event timestamps of the call just made have no regular frequency
Irregular == pd_infer_freq(PreEventTimes(last.df, StartOf(last))).kind = "none"

\* the gaps between consecutive timestamps of the forecast just returned
GridGaps == Deltas(last.out.index)

\* C22 (as stated): when the pre-event timestamps are irregular, the forecast
\* timeline of a generate call that returns is spaced at the frequency derived
\* from their median gap.
C22_MedianGapFrequency ==
    (IsGenerate /\ last.out.ok /\ Irregular) =>
        GridGaps \subseteq {FreqStep(median_gap_freq(PreEventTimes(last.df, StartOf(last))))}

\* twice the median gap, in hours, between the consecutive pre-event timestamps
\* of the call just made
MedianGap2 ==
    LET ts == PreEventTimes(last.df, StartOf(last))
    IN  Median2([i \in 1..(Len(ts) - 1) |-> ts[i + 1] - ts[i]])

\* C23: a configured cycle_period is used as it is; otherwise, with detection on,
\* the granularity is hour for a median gap of at most 6 hours, day for at most
\* 3 days, week for at most 2 weeks and month above that; and hour when there
\* are fewer than two pre-event timestamps or detection is off.
C23_Granularity ==
    last.op = "cycle" =>
        last.out =
           IF cfg.cycle_period # "auto" THEN cfg.cycle_period
           ELSE IF ~cfg.auto_detect THEN "hour"
           ELSE IF Len(PreEventTimes(last.df, StartOf(last))) < 2 THEN "hour"
           ELSE IF MedianGap2 <= 2 * 6 THEN "hour"
           ELSE IF MedianGap2 <= 2 * 72 THEN "day"
           ELSE IF MedianGap2 <= 2 * 336 THEN "week"
           ELSE "month"

\* C23's case: detection on a series whose median gap is exactly three days
C23_Witness ==
    /\ last.op = "cycle"
    /\ cfg.cycle_period = "auto"
    /\ cfg.auto_detect
    /\ Len(PreEventTimes(last.df, StartOf(last))) = 3
    /\ MedianGap2 = 2 * 72
    /\ last.out = "day"

\* the grid pd.date_range first builds between the start and the end of the
\* forecast of the call just made
FirstGrid ==
    date_range(StartOf(last), EndOf(last) + cfg.forecast_days * HoursPerDay,
               infer_frequency(PreEventTimes(last.df, StartOf(last))))

\* C24 (as stated): the first timestamp of every forecast timeline is
\* event_start, and the timeline has as many points as the grid first built
\* between start and end, for every frequency.
C24_StartFixed ==
    (IsGenerate /\ last.out.ok) =>
        /\ last.out.index[1] = StartOf(last)
        /\ Len(last.out.index) = Len(FirstGrid)

\* the call just made is a generate call on a time-indexed series holding the
\* target column, for an event with start < end, with at least ar_order + 1
\* observations before the start and a pre-event target not entirely missing
\* (forecast_days is never negative)
UsableCall ==
    /\ IsGenerate
    /\ ~WindowInvalid
    /\ last.df.datetime_index
    /\ last.df.has_target
    /\ ~TooShort
    /\ ~AllMissing
    /\ cfg.forecast_days >= 0

\* C25 (as stated): every generate call on a usable input returns a forecast and
\* raises nothing, also with exactly ar_order + 1 pre-event observations.
C25_UsableInputSucceeds == UsableCall => last.out.ok

\* C26 (as stated): whenever generate returns, every value of the forecast is a
\* number, none is missing.
C26_FiniteForecast ==
    (IsGenerate /\ last.out.ok) => ~HasNaN(last.out.values)

\* what a fit call that returned out leaves stored on the model, were it stored
StoredBy(out) ==
    [coefficients |-> Some(<<out.c>> \o out.phi), residuals |-> Some(out.residuals),
     residual_std |-> Some(out.residual_std)]

C28_ColumnPerEvent ==
    (IsBatch /\ last.out.ok) =>
        /\ Len(last.out.columns) = Cardinality(Survivors)
        /\ \A k \in Survivors : ColumnIs(last.out.calls[k])
        /\ \A r \in 1..Len(last.out.index) : Filled(r) # {}

\* the lags a coefficient vector of the given order sees at position n of y,
\* oldest first: y[n-order], ..., y[n-1]
LagsBefore(y, n, order) == Slice(y, n - order, n - 1)

\* the residuals of the parameters p on the array y are those of the model
\* y[n] = c + sum over k of phi[k] * y[n-order+k], the lags taken oldest first
InSampleAligned(p, y, order) ==
    \A j \in 1..Len(p.residuals) :
       p.residuals[j] =
          Sub(y[order + j], Add(p.c, np_dot(p.phi, LagsBefore(y, order + j, order))))

\* C29: the coefficients fit returns from a regular solve weight the lags oldest
\* first (phi[k] is the weight of the value order-k steps back, as its residuals
\* show), and the first value of ARModel.forecast and the first base value of
\* generate are c + sum over k of phi[k] * y[n-order+k] on the last order values.
C29_LagAlignment ==
    /\ (last.op = "fit" /\ last.out.stored) =>
          InSampleAligned(last.out, last.y, last.order)
    /\ (IsForecast /\ ~last.out.raised /\ last.horizon >= 1) =>
          last.out.forecast[1] =
             Add(Add(last.c,
                     np_dot(last.phi,
                            LagsBefore(last.last_values, Len(last.last_values) + 1,
                                       Len(last.phi)))),
                 forecast_noise(last.self, last.add_noise, last.noise_std,
                                last.random_seed, last.entropy, 1))
    /\ (IsGenerate /\ last.out.ok /\ cfg.noise_factor = Zero) =>
          /\ ParamsOfCall.stored => InSampleAligned(ParamsOfCall, PreEventTarget, cfg.ar_order)
          /\ last.out.values[1] =
                Add(Add(ParamsOfCall.c,
                        np_dot(ParamsOfCall.phi,
                               LagsBefore(PreEventTarget, Len(PreEventTarget) + 1,
                                          cfg.ar_order))),
                    AdjustmentsOfCall[1])

\* C29's case: a generate call with an order-2 model from a regular solve whose
\* two coefficients differ, on a history whose last two values differ, so that
\* the coefficients applied newest lag first give another first value
C29_Witness ==
    /\ IsGenerate
    /\ last.out.ok
    /\ cfg.ar_order = 2
    /\ ParamsOfCall.stored
    /\ ParamsOfCall.phi[1] # ParamsOfCall.phi[2]
    /\ np_dot(ParamsOfCall.phi,
              LagsBefore(PreEventTarget, Len(PreEventTarget) + 1, 2)) #
       np_dot(ParamsOfCall.phi,
              <<PreEventTarget[Len(PreEventTarget)],
                PreEventTarget[Len(PreEventTarget) - 1]>>)

\* the generate call just made, repeated with noise_factor = 0
QuietCall ==
    generate(last.df, [cfg EXCEPT !.noise_factor = Zero], EventOfCall.start,
             EventOfCall.end, EventOfCall.name,
             [salt |-> last.env.salt, entropy |-> last.env.entropy, svd_fails |-> FALSE])

\* what the noise of the generate call just made adds at step i
NoiseOfCall(i) ==
    IF NoiseOn THEN Mul(Mul(ParamsOfCall.residual_std, cfg.noise_factor), DrawOfCall(i))
    ELSE Zero

\* C30: in generate the noise never enters the rolling state: every value of a
\* call differs from the value of the same call without noise by that step's own
\* scaled draw and by nothing else, so no draw moves the value of a later step.
C30_NoiseOutsideState ==
    (IsGenerate /\ last.out.ok) =>
        /\ QuietCall.ok
        /\ QuietCall.index = last.out.index
        /\ \A i \in 1..Len(last.out.values) :
              Sub(last.out.values[i], QuietCall.values[i]) = NoiseOfCall(i)

\* C30's case: a call with noise on, a non-zero coefficient and a non-zero
\* first draw, which in the state would have moved the second value
C30_Witness ==
    /\ IsGenerate
    /\ last.out.ok
    /\ NoiseOn
    /\ Len(last.out.values) = 3
    /\ Mul(ParamsOfCall.phi[cfg.ar_order], NoiseOfCall(1)) # Zero
    /\ last.out.values[2] # QuietCall.values[2]

====
